---- MODULE Spec2Model ----
(***************************************************************************)
(* Model of the doubly-linked deque of bad_safe_deque.rs: a list of        *)
(* Rc<RefCell<Node<T>>> nodes.  The heap maps node addresses to nodes;     *)
(* every Rc keeps its strong count and every RefCell its borrow flag, as   *)
(* the standard library does.  Each public operation is executed one       *)
(* source statement at a time; pc is the position inside the operation.    *)
(*                                                                         *)
(* The other lists of the crate follow the deque, each with its own        *)
(* variables and its own specification: the boxed stacks of bad_stack.rs   *)
(* and ok_stack.rs (SpecStacks), the raw-pointer queue of                  *)
(* ok_unsafe_queue.rs (SpecQueue) and the shared list of                   *)
(* persistent_stack.rs (SpecPersistent).                                   *)
(***************************************************************************)
EXTENDS Integers, Sequences, FiniteSets, TLC

\* ---------------------------------------------------------------- bounds
MaxNodes == 3
MaxElem == 2
MaxViews == 2
MaxLeaked == 1
MaxStack == 3
MaxQueue == 3
MaxShared == 2
MaxLists == 3

\* ------------------------------------------------------------- constants
\* Option::None of a Link<T> (no node) and of an Option<T> (no element)
NULL == 0
None == 0

Nodes == 1..MaxNodes
Elems == 1..MaxElem

VARIABLES
    heap,     \* address -> Node<T> with the Rc strong count and RefCell flag
    head,     \* List::head
    tail,     \* List::tail
    local,    \* the local handles of the running operation
    pc,       \* position inside the running operation, "idle" between two
    op,       \* the public operation that is running or ran last
    mode,     \* "list": a List; "iter": moved into IntoIter; "dropped"
    views,    \* the Ref / RefMut values the peeks returned: held, or leaked
    ret,      \* the value the last operation returned
    abs,      \* the abstract sequence the operations are specified on
    expect,   \* the value the abstract operation returns
    snap,     \* the elements from head to tail when into_iter was called
    fronts,   \* the values IntoIter::next has yielded
    backs     \* the values IntoIter::next_back has yielded

\* bad_stack.rs and ok_stack.rs
VARIABLES
    okList,   \* ok_stack::List: head and the boxed nodes it owns
    badList,  \* bad_stack::List: head and the boxed nodes it owns
    okRet,    \* the value the last call on the ok_stack list returned
    badRet,   \* the value the last call on the bad_stack list returned
    sop,      \* the call made last on the stacks
    sabs,     \* the elements pushed and not yet popped, the newest first
    smode,    \* "list", "iter", "iter_mut", "into_iter" or "dropping"
    cursor,   \* Iter::next / IterMut::next of ok_stack
    yielded,  \* the values the iterator has yielded
    ssnap,    \* what repeated pops would return when the iterator was made
    okCur,    \* current of ok_stack's drop
    badCur    \* current of bad_stack's drop

\* ok_unsafe_queue.rs
VARIABLES
    qList,    \* ok_unsafe_queue::List: head, tail and the nodes they point into
    qRet,     \* the value the last call on the queue returned
    qop,      \* the call made last on the queue
    qabs,     \* the elements pushed and not yet popped, the oldest first
    qemptied, \* a pop has removed the last element of the queue
    qub,      \* a freed node was dereferenced
    qmode,    \* "list", or "iter" / "iter_mut" while an iterator borrows it
    qcursor,  \* Iter::next / IterMut::next of the queue
    qyielded, \* the values the iterator has yielded
    qsnap     \* the elements from head on when the iterator was made

\* persistent_stack.rs
VARIABLES
    arcs,     \* address -> Node<T> with the strong count of its Arc
    lists,    \* the head of every List value of the program
    pRet,     \* the element the last call on a persistent list returned
    pIter,    \* the Iter in use: the list it borrows and Iter::next
    pYielded, \* the values the Iter has yielded
    pDrops    \* the local head of each drop in progress, one per thread

listVars == <<head, tail>>
iterVars == <<snap, fronts, backs>>
dequeVars == <<heap, head, tail, local, pc, op, mode, views, ret, abs, expect,
               snap, fronts, backs>>
stackVars == <<okList, badList, okRet, badRet, sop, sabs, smode, cursor, yielded,
               ssnap, okCur, badCur>>
queueVars == <<qList, qRet, qop, qabs, qemptied, qub, qmode, qcursor, qyielded, qsnap>>
sharedVars == <<arcs, lists, pRet, pIter, pYielded, pDrops>>
siblings == <<stackVars, queueVars, sharedVars>>
vars == <<dequeVars, siblings>>

\* ------------------------------------------------------ Node, Rc, RefCell
FreeNode == [elem |-> None, next |-> NULL, prev |-> NULL, strong |-> 0, borrow |-> 0]

\* Node::new: Rc::new(RefCell::new(Node { elem, prev: None, next: None }))
NodeNew(h, n, e) ==
    [h EXCEPT ![n] = [elem |-> e, next |-> NULL, prev |-> NULL, strong |-> 1, borrow |-> 0]]

Free(h) == {n \in Nodes : h[n].strong = 0}
Live(h) == {n \in Nodes : h[n].strong > 0}

\* mutant: a clone that counts twice
RcClone_Twice(h, n) == [h EXCEPT ![n].strong = @ + 2]

\* Rc::clone: one more strong reference to the same node
RcClone(h, n) == [h EXCEPT ![n].strong = @ + 1]

\* Dropping an Option<Rc<..>>: one strong reference less; the node is
\* destroyed with the last one, and its own links are dropped with it.
RECURSIVE RcDrop(_, _)
RcDrop(h, n) ==
    IF n = NULL \/ h[n].strong = 0 THEN h
    ELSE IF h[n].strong > 1 THEN [h EXCEPT ![n].strong = @ - 1]
    ELSE RcDrop(RcDrop([h EXCEPT ![n] = FreeNode], h[n].next), h[n].prev)

\* RefCell::borrow_mut succeeds on an unborrowed cell only;
\* RefCell::borrow succeeds unless the cell is exclusively borrowed.
CanBorrowMut(h, n) == h[n].borrow = 0
\* mutant: a shared borrow needs a node nothing borrows
CanBorrow_Alone(h, n) == h[n].borrow = 0
CanBorrow(h, n) == h[n].borrow >= 0
BorrowMut(h, n) == [h EXCEPT ![n].borrow = -1]
Borrow(h, n) == [h EXCEPT ![n].borrow = @ + 1]
ReleaseMut(h, n) == [h EXCEPT ![n].borrow = 0]
Release(h, n) == [h EXCEPT ![n].borrow = @ - 1]

NoLocal == [oldhead |-> NULL, newhead |-> NULL, oldtail |-> NULL, newtail |-> NULL]

\* A panic unwinds the operation: its local handles are dropped.
Unwound(h) ==
    RcDrop(RcDrop(RcDrop(RcDrop(h, local.newtail), local.oldtail), local.newhead), local.oldhead)

Panic ==
    /\ pc' = "panicked"
    /\ heap' = Unwound(heap)
    /\ local' = NoLocal
    /\ UNCHANGED <<head, tail, op, mode, views, ret, abs, expect, snap, fronts, backs>>

\* Where control goes when the operation op returns.
Return(o) ==
    CASE o = "next" -> "next_ret"
      [] o = "next_back" -> "next_back_ret"
      [] o = "drop" -> "drop_loop"
      [] OTHER -> "idle"

\* ------------------------------------------------------------ traversals
RECURSIVE WalkFrom(_, _, _)
\* the nodes met from n along the next links (k bounds the walk)
WalkFrom(h, n, k) ==
    IF n = NULL \/ k = 0 THEN <<>> ELSE <<n>> \o WalkFrom(h, h[n].next, k - 1)

RECURSIVE WalkBackFrom(_, _, _)
\* the nodes met from n along the prev links
WalkBackFrom(h, n, k) ==
    IF n = NULL \/ k = 0 THEN <<>> ELSE <<n>> \o WalkBackFrom(h, h[n].prev, k - 1)

Forward == WalkFrom(heap, head, MaxNodes + 1)
Backward == WalkBackFrom(heap, tail, MaxNodes + 1)
Reverse(s) == [i \in 1..Len(s) |-> s[Len(s) + 1 - i]]
ElemsOf(s) == [i \in 1..Len(s) |-> heap[s[i]].elem]
Contents == ElemsOf(Forward)

\* ------------------------------------------------------------------ Init
\* List::new()
InitDeque ==
    /\ heap = [n \in Nodes |-> FreeNode]
    /\ head = NULL
    /\ tail = NULL
    /\ local = NoLocal
    /\ pc = "idle"
    /\ op = "new"
    /\ mode = "list"
    /\ views = <<>>
    /\ ret = None
    /\ abs = <<>>
    /\ expect = None
    /\ snap = <<>>
    /\ fronts = <<>>
    /\ backs = <<>>

\* A view the caller still holds borrows the List; a view the caller leaked
\* (mem::forget) ended that borrow without releasing the RefCell.
NoViewHeld == \A i \in 1..Len(views) : views[i].leaked

\* A &mut self method can be called on a List no held view borrows.
CanCallMut == pc = "idle" /\ mode = "list" /\ NoViewHeld

\* ------------------------------------------------------------ push_front
\* let newhead = Node::new(elem); match self.head.take()
PushFront(e) ==
    /\ CanCallMut
    /\ Len(abs) < MaxNodes
    /\ \E n \in Free(heap) :
        /\ heap' = NodeNew(heap, n, e)
        /\ local' = [NoLocal EXCEPT !.newhead = n, !.oldhead = head]
    /\ head' = NULL
    /\ pc' = IF head /= NULL THEN "push_front_some" ELSE "push_front_none"
    /\ op' = "push_front"
    /\ abs' = <<e>> \o abs
    /\ ret' = None
    /\ expect' = None
    /\ UNCHANGED <<tail, mode, views, snap, fronts, backs>>
    /\ UNCHANGED siblings

\* mutant: the old head is never linked back to the new node
PushFrontSetPrev_NoLink ==
    /\ pc = "push_front_some"
    /\ pc' = "push_front_set_next"
    /\ UNCHANGED <<heap, head, tail, local, op, mode, views, ret, abs, expect, snap, fronts, backs>>
    /\ UNCHANGED siblings

\* oldhead.borrow_mut().prev = Some(newhead.clone());
PushFrontSetPrev ==
    /\ pc = "push_front_some"
    /\ IF CanBorrowMut(heap, local.oldhead)
       THEN /\ heap' = [RcDrop(RcClone(heap, local.newhead), heap[local.oldhead].prev)
                           EXCEPT ![local.oldhead].prev = local.newhead]
            /\ pc' = "push_front_set_next"
            /\ UNCHANGED <<head, tail, local, op, mode, views, ret, abs, expect, snap, fronts, backs>>
       ELSE Panic
    /\ UNCHANGED siblings

\* newhead.borrow_mut().next = Some(oldhead);
PushFrontSetNext ==
    /\ pc = "push_front_set_next"
    /\ IF CanBorrowMut(heap, local.newhead)
       THEN /\ heap' = [RcDrop(heap, heap[local.newhead].next)
                           EXCEPT ![local.newhead].next = local.oldhead]
            /\ local' = [local EXCEPT !.oldhead = NULL]
            /\ pc' = "push_front_set_head"
            /\ UNCHANGED <<head, tail, op, mode, views, ret, abs, expect, snap, fronts, backs>>
       ELSE Panic
    /\ UNCHANGED siblings

\* self.head = Some(newhead);
PushFrontSetHead ==
    /\ pc = "push_front_set_head"
    /\ heap' = RcDrop(heap, head)
    /\ head' = local.newhead
    /\ local' = NoLocal
    /\ pc' = Return(op)
    /\ UNCHANGED <<tail, op, mode, views, ret, abs, expect, snap, fronts, backs>>
    /\ UNCHANGED siblings

\* self.tail = Some(newhead.clone());
PushFrontEmptyTail ==
    /\ pc = "push_front_none"
    /\ heap' = RcDrop(RcClone(heap, local.newhead), tail)
    /\ tail' = local.newhead
    /\ pc' = "push_front_none_head"
    /\ UNCHANGED <<head, local, op, mode, views, ret, abs, expect, snap, fronts, backs>>
    /\ UNCHANGED siblings

\* self.head = Some(newhead);
PushFrontEmptyHead ==
    /\ pc = "push_front_none_head"
    /\ heap' = RcDrop(heap, head)
    /\ head' = local.newhead
    /\ local' = NoLocal
    /\ pc' = Return(op)
    /\ UNCHANGED <<tail, op, mode, views, ret, abs, expect, snap, fronts, backs>>
    /\ UNCHANGED siblings

\* ------------------------------------------------------------- pop_front
\* mutant: the head is unwrapped instead of mapped, so an empty list panics
PopFrontEnter_Unwrap(o) ==
    /\ op' = o
    /\ expect' = IF abs = <<>> THEN None ELSE Head(abs)
    /\ abs' = IF abs = <<>> THEN abs ELSE Tail(abs)
    /\ head' = NULL
    /\ ret' = None
    /\ IF head = NULL
       THEN /\ pc' = "panicked"
            /\ UNCHANGED local
       ELSE /\ local' = [NoLocal EXCEPT !.oldhead = head]
            /\ pc' = "pop_front_take_next"
    /\ UNCHANGED <<heap, tail, mode, views, snap, fronts, backs>>

\* self.head.take().map(|oldhead| ..): None of an empty list
PopFrontEnter(o) ==
    /\ op' = o
    /\ expect' = IF abs = <<>> THEN None ELSE Head(abs)
    /\ abs' = IF abs = <<>> THEN abs ELSE Tail(abs)
    /\ head' = NULL
    /\ IF head = NULL
       THEN /\ ret' = None
            /\ pc' = Return(o)
            /\ UNCHANGED local
       ELSE /\ ret' = None
            /\ local' = [NoLocal EXCEPT !.oldhead = head]
            /\ pc' = "pop_front_take_next"
    /\ UNCHANGED <<heap, tail, mode, views, snap, fronts, backs>>

PopFront ==
    /\ CanCallMut
    /\ PopFrontEnter("pop_front")
    /\ UNCHANGED siblings

\* match oldhead.borrow_mut().next.take(): the RefMut lives to the end of
\* the match
PopFrontTakeNext ==
    /\ pc = "pop_front_take_next"
    /\ IF CanBorrowMut(heap, local.oldhead)
       THEN /\ heap' = [BorrowMut(heap, local.oldhead) EXCEPT ![local.oldhead].next = NULL]
            /\ local' = [local EXCEPT !.newhead = heap[local.oldhead].next]
            /\ pc' = IF heap[local.oldhead].next /= NULL
                     THEN "pop_front_some" ELSE "pop_front_none"
            /\ UNCHANGED <<head, tail, op, mode, views, ret, abs, expect, snap, fronts, backs>>
       ELSE Panic
    /\ UNCHANGED siblings

\* mutant: the new head keeps its link back to the departing node
PopFrontClearPrev_Keep ==
    /\ pc = "pop_front_some"
    /\ pc' = "pop_front_set_head"
    /\ UNCHANGED <<heap, head, tail, local, op, mode, views, ret, abs, expect, snap, fronts, backs>>
    /\ UNCHANGED siblings

\* newhead.borrow_mut().prev.take();
PopFrontClearPrev ==
    /\ pc = "pop_front_some"
    /\ IF CanBorrowMut(heap, local.newhead)
       THEN /\ heap' = RcDrop([heap EXCEPT ![local.newhead].prev = NULL],
                              heap[local.newhead].prev)
            /\ pc' = "pop_front_set_head"
            /\ UNCHANGED <<head, tail, local, op, mode, views, ret, abs, expect, snap, fronts, backs>>
       ELSE Panic
    /\ UNCHANGED siblings

\* self.head = Some(newhead);
PopFrontSetHead ==
    /\ pc = "pop_front_set_head"
    /\ heap' = RcDrop(heap, head)
    /\ head' = local.newhead
    /\ local' = [local EXCEPT !.newhead = NULL]
    /\ pc' = "pop_front_end_match"
    /\ UNCHANGED <<tail, op, mode, views, ret, abs, expect, snap, fronts, backs>>
    /\ UNCHANGED siblings

\* mutant: popping the last element leaves tail in place
PopFrontClearTail_KeepTail ==
    /\ pc = "pop_front_none"
    /\ pc' = "pop_front_end_match"
    /\ UNCHANGED <<heap, head, tail, local, op, mode, views, ret, abs, expect, snap, fronts, backs>>
    /\ UNCHANGED siblings

\* self.tail.take();
PopFrontClearTail ==
    /\ pc = "pop_front_none"
    /\ heap' = RcDrop(heap, tail)
    /\ tail' = NULL
    /\ pc' = "pop_front_end_match"
    /\ UNCHANGED <<head, local, op, mode, views, ret, abs, expect, snap, fronts, backs>>
    /\ UNCHANGED siblings

\* the end of the match drops the RefMut of oldhead
PopFrontEndMatch ==
    /\ pc = "pop_front_end_match"
    /\ heap' = ReleaseMut(heap, local.oldhead)
    /\ pc' = "pop_front_unwrap"
    /\ UNCHANGED <<head, tail, local, op, mode, views, ret, abs, expect, snap, fronts, backs>>
    /\ UNCHANGED siblings

\* Rc::try_unwrap(oldhead).ok().unwrap().into_inner().elem
PopFrontUnwrap ==
    /\ pc = "pop_front_unwrap"
    /\ IF heap[local.oldhead].strong = 1
       THEN /\ ret' = heap[local.oldhead].elem
            /\ heap' = RcDrop(heap, local.oldhead)
            /\ local' = NoLocal
            /\ pc' = Return(op)
            /\ UNCHANGED <<head, tail, op, mode, views, abs, expect, snap, fronts, backs>>
       ELSE Panic
    /\ UNCHANGED siblings

\* ------------------------------------------------------------- push_back
\* let newtail = Node::new(elem); match self.tail.take()
PushBack(e) ==
    /\ CanCallMut
    /\ Len(abs) < MaxNodes
    /\ \E n \in Free(heap) :
        /\ heap' = NodeNew(heap, n, e)
        /\ local' = [NoLocal EXCEPT !.newtail = n, !.oldtail = tail]
    /\ tail' = NULL
    /\ pc' = IF tail /= NULL THEN "push_back_some" ELSE "push_back_none"
    /\ op' = "push_back"
    /\ abs' = abs \o <<e>>
    /\ ret' = None
    /\ expect' = None
    /\ UNCHANGED <<head, mode, views, snap, fronts, backs>>
    /\ UNCHANGED siblings

\* mutant: the old tail is never linked forward to the new node
PushBackSetNext_NoLink ==
    /\ pc = "push_back_some"
    /\ pc' = "push_back_set_prev"
    /\ UNCHANGED <<heap, head, tail, local, op, mode, views, ret, abs, expect, snap, fronts, backs>>
    /\ UNCHANGED siblings

\* oldtail.borrow_mut().next = Some(newtail.clone());
PushBackSetNext ==
    /\ pc = "push_back_some"
    /\ IF CanBorrowMut(heap, local.oldtail)
       THEN /\ heap' = [RcDrop(RcClone(heap, local.newtail), heap[local.oldtail].next)
                           EXCEPT ![local.oldtail].next = local.newtail]
            /\ pc' = "push_back_set_prev"
            /\ UNCHANGED <<head, tail, local, op, mode, views, ret, abs, expect, snap, fronts, backs>>
       ELSE Panic
    /\ UNCHANGED siblings

\* mutant: the old tail is stored in the next link of the new tail
PushBackSetPrev_AsNext ==
    /\ pc = "push_back_set_prev"
    /\ heap' = [RcDrop(heap, heap[local.newtail].next)
                    EXCEPT ![local.newtail].next = local.oldtail]
    /\ local' = [local EXCEPT !.oldtail = NULL]
    /\ pc' = "push_back_set_tail"
    /\ UNCHANGED <<head, tail, op, mode, views, ret, abs, expect, snap, fronts, backs>>
    /\ UNCHANGED siblings

\* newtail.borrow_mut().prev = Some(oldtail);
PushBackSetPrev ==
    /\ pc = "push_back_set_prev"
    /\ IF CanBorrowMut(heap, local.newtail)
       THEN /\ heap' = [RcDrop(heap, heap[local.newtail].prev)
                           EXCEPT ![local.newtail].prev = local.oldtail]
            /\ local' = [local EXCEPT !.oldtail = NULL]
            /\ pc' = "push_back_set_tail"
            /\ UNCHANGED <<head, tail, op, mode, views, ret, abs, expect, snap, fronts, backs>>
       ELSE Panic
    /\ UNCHANGED siblings

\* self.tail = Some(newtail);
PushBackSetTail ==
    /\ pc = "push_back_set_tail"
    /\ heap' = RcDrop(heap, tail)
    /\ tail' = local.newtail
    /\ local' = NoLocal
    /\ pc' = Return(op)
    /\ UNCHANGED <<head, op, mode, views, ret, abs, expect, snap, fronts, backs>>
    /\ UNCHANGED siblings

\* self.head = Some(newtail.clone());
PushBackEmptyHead ==
    /\ pc = "push_back_none"
    /\ heap' = RcDrop(RcClone(heap, local.newtail), head)
    /\ head' = local.newtail
    /\ pc' = "push_back_none_tail"
    /\ UNCHANGED <<tail, local, op, mode, views, ret, abs, expect, snap, fronts, backs>>
    /\ UNCHANGED siblings

\* self.tail = Some(newtail);
PushBackEmptyTail ==
    /\ pc = "push_back_none_tail"
    /\ heap' = RcDrop(heap, tail)
    /\ tail' = local.newtail
    /\ local' = NoLocal
    /\ pc' = Return(op)
    /\ UNCHANGED <<head, op, mode, views, ret, abs, expect, snap, fronts, backs>>
    /\ UNCHANGED siblings

\* -------------------------------------------------------------- pop_back
\* self.tail.take().map(|oldtail| ..): None of an empty list
PopBackEnter(o) ==
    /\ op' = o
    /\ expect' = IF abs = <<>> THEN None ELSE abs[Len(abs)]
    /\ abs' = IF abs = <<>> THEN abs ELSE SubSeq(abs, 1, Len(abs) - 1)
    /\ tail' = NULL
    /\ IF tail = NULL
       THEN /\ ret' = None
            /\ pc' = Return(o)
            /\ UNCHANGED local
       ELSE /\ ret' = None
            /\ local' = [NoLocal EXCEPT !.oldtail = tail]
            /\ pc' = "pop_back_take_prev"
    /\ UNCHANGED <<heap, head, mode, views, snap, fronts, backs>>

PopBack ==
    /\ CanCallMut
    /\ PopBackEnter("pop_back")
    /\ UNCHANGED siblings

\* match oldtail.borrow_mut().prev.take(): the RefMut lives to the end of
\* the match
PopBackTakePrev ==
    /\ pc = "pop_back_take_prev"
    /\ IF CanBorrowMut(heap, local.oldtail)
       THEN /\ heap' = [BorrowMut(heap, local.oldtail) EXCEPT ![local.oldtail].prev = NULL]
            /\ local' = [local EXCEPT !.newtail = heap[local.oldtail].prev]
            /\ pc' = IF heap[local.oldtail].prev /= NULL
                     THEN "pop_back_some" ELSE "pop_back_none"
            /\ UNCHANGED <<head, tail, op, mode, views, ret, abs, expect, snap, fronts, backs>>
       ELSE Panic
    /\ UNCHANGED siblings

\* mutant: the RefMut of newtail is kept past the end of the statement
PopBackClearNext_Held ==
    /\ pc = "pop_back_some"
    /\ IF CanBorrowMut(heap, local.newtail)
       THEN /\ heap' = BorrowMut(RcDrop([heap EXCEPT ![local.newtail].next = NULL],
                                        heap[local.newtail].next), local.newtail)
            /\ pc' = "pop_back_set_tail"
            /\ UNCHANGED <<head, tail, local, op, mode, views, ret, abs, expect, snap, fronts, backs>>
       ELSE Panic
    /\ UNCHANGED siblings

\* newtail.borrow_mut().next.take();
PopBackClearNext ==
    /\ pc = "pop_back_some"
    /\ IF CanBorrowMut(heap, local.newtail)
       THEN /\ heap' = RcDrop([heap EXCEPT ![local.newtail].next = NULL],
                              heap[local.newtail].next)
            /\ pc' = "pop_back_set_tail"
            /\ UNCHANGED <<head, tail, local, op, mode, views, ret, abs, expect, snap, fronts, backs>>
       ELSE Panic
    /\ UNCHANGED siblings

\* self.tail = Some(newtail);
PopBackSetTail ==
    /\ pc = "pop_back_set_tail"
    /\ heap' = RcDrop(heap, tail)
    /\ tail' = local.newtail
    /\ local' = [local EXCEPT !.newtail = NULL]
    /\ pc' = "pop_back_end_match"
    /\ UNCHANGED <<head, op, mode, views, ret, abs, expect, snap, fronts, backs>>
    /\ UNCHANGED siblings

\* self.head.take();
PopBackClearHead ==
    /\ pc = "pop_back_none"
    /\ heap' = RcDrop(heap, head)
    /\ head' = NULL
    /\ pc' = "pop_back_end_match"
    /\ UNCHANGED <<tail, local, op, mode, views, ret, abs, expect, snap, fronts, backs>>
    /\ UNCHANGED siblings

\* the end of the match drops the RefMut of oldtail
PopBackEndMatch ==
    /\ pc = "pop_back_end_match"
    /\ heap' = ReleaseMut(heap, local.oldtail)
    /\ pc' = "pop_back_unwrap"
    /\ UNCHANGED <<head, tail, local, op, mode, views, ret, abs, expect, snap, fronts, backs>>
    /\ UNCHANGED siblings

\* Rc::try_unwrap(oldtail).ok().unwrap().into_inner().elem
PopBackUnwrap ==
    /\ pc = "pop_back_unwrap"
    /\ IF heap[local.oldtail].strong = 1
       THEN /\ ret' = heap[local.oldtail].elem
            /\ heap' = RcDrop(heap, local.oldtail)
            /\ local' = NoLocal
            /\ pc' = Return(op)
            /\ UNCHANGED <<head, tail, op, mode, views, abs, expect, snap, fronts, backs>>
       ELSE Panic
    /\ UNCHANGED siblings

\* ------------------------------------------------------------------ peek
\* A &self method can be called while other shared views are held, but
\* not while a RefMut borrows the list exclusively.
CanCallShared ==
    /\ pc = "idle"
    /\ mode = "list"
    /\ \A i \in 1..Len(views) : views[i].leaked \/ ~views[i].mutable

View(n, m, f) == [node |-> n, mutable |-> m, front |-> f, leaked |-> FALSE]
RemoveAt(s, i) == SubSeq(s, 1, i - 1) \o SubSeq(s, i + 1, Len(s))
\* The views are kept in one fixed order, whatever the order the caller
\* took them in: held before leaked, front before back, by node.
ViewKey(w) ==
    (IF w.leaked THEN 4 * (MaxNodes + 1) ELSE 0) + (IF w.front THEN 0 ELSE 2 * (MaxNodes + 1))
        + (IF w.mutable THEN MaxNodes + 1 ELSE 0) + w.node
AddView(s, w) ==
    LET k == Cardinality({i \in 1..Len(s) : ViewKey(s[i]) <= ViewKey(w)})
    IN SubSeq(s, 1, k) \o <<w>> \o SubSeq(s, k + 1, Len(s))
\* the position in the abstract sequence a view of that end looks at
EndPos(f) == IF f THEN 1 ELSE Len(abs)
AbsEnd(f) == IF abs = <<>> THEN None ELSE abs[EndPos(f)]

\* mutant: the shared borrow is taken without the RefCell's check
PeekFront_NoCheck ==
    /\ CanCallShared
    /\ Len(views) < MaxViews
    /\ op' = "peek_front"
    /\ expect' = AbsEnd(TRUE)
    /\ IF head = NULL
       THEN /\ ret' = None
            /\ UNCHANGED <<heap, views, pc, local>>
       ELSE /\ heap' = Borrow(heap, head)
            /\ views' = AddView(views, View(head, FALSE, TRUE))
            /\ ret' = heap[head].elem
            /\ UNCHANGED <<pc, local>>
    /\ UNCHANGED <<head, tail, mode, abs, snap, fronts, backs>>
    /\ UNCHANGED siblings

\* self.head.as_ref().map(|head| Ref::map(head.borrow(), |head| &head.elem))
PeekFront ==
    /\ CanCallShared
    /\ Len(views) < MaxViews
    /\ op' = "peek_front"
    /\ expect' = AbsEnd(TRUE)
    /\ IF head = NULL
       THEN /\ ret' = None
            /\ UNCHANGED <<heap, views, pc, local>>
       ELSE IF CanBorrow(heap, head)
       THEN /\ heap' = Borrow(heap, head)
            /\ views' = AddView(views, View(head, FALSE, TRUE))
            /\ ret' = heap[head].elem
            /\ UNCHANGED <<pc, local>>
       ELSE /\ pc' = "panicked"
            /\ UNCHANGED <<heap, views, ret, local>>
    /\ UNCHANGED <<head, tail, mode, abs, snap, fronts, backs>>
    /\ UNCHANGED siblings

\* mutant: peek_back looks at the head node
PeekBack_Head ==
    /\ CanCallShared
    /\ Len(views) < MaxViews
    /\ op' = "peek_back"
    /\ expect' = AbsEnd(FALSE)
    /\ IF head = NULL
       THEN /\ ret' = None
            /\ UNCHANGED <<heap, views, pc, local>>
       ELSE IF CanBorrow(heap, head)
       THEN /\ heap' = Borrow(heap, head)
            /\ views' = AddView(views, View(head, FALSE, FALSE))
            /\ ret' = heap[head].elem
            /\ UNCHANGED <<pc, local>>
       ELSE /\ pc' = "panicked"
            /\ UNCHANGED <<heap, views, ret, local>>
    /\ UNCHANGED <<head, tail, mode, abs, snap, fronts, backs>>
    /\ UNCHANGED siblings

\* self.tail.as_ref().map(|tail| Ref::map(tail.borrow(), |tail| &tail.elem))
PeekBack ==
    /\ CanCallShared
    /\ Len(views) < MaxViews
    /\ op' = "peek_back"
    /\ expect' = AbsEnd(FALSE)
    /\ IF tail = NULL
       THEN /\ ret' = None
            /\ UNCHANGED <<heap, views, pc, local>>
       ELSE IF CanBorrow(heap, tail)
       THEN /\ heap' = Borrow(heap, tail)
            /\ views' = AddView(views, View(tail, FALSE, FALSE))
            /\ ret' = heap[tail].elem
            /\ UNCHANGED <<pc, local>>
       ELSE /\ pc' = "panicked"
            /\ UNCHANGED <<heap, views, ret, local>>
    /\ UNCHANGED <<head, tail, mode, abs, snap, fronts, backs>>
    /\ UNCHANGED siblings

\* mutant: the exclusive borrow is taken without the RefCell's check
PeekFrontMut_NoCheck ==
    /\ CanCallMut
    /\ Len(views) < MaxViews
    /\ op' = "peek_front_mut"
    /\ expect' = AbsEnd(TRUE)
    /\ IF head = NULL
       THEN /\ ret' = None
            /\ UNCHANGED <<heap, views, pc, local>>
       ELSE /\ heap' = BorrowMut(heap, head)
            /\ views' = AddView(views, View(head, TRUE, TRUE))
            /\ ret' = heap[head].elem
            /\ UNCHANGED <<pc, local>>
    /\ UNCHANGED <<head, tail, mode, abs, snap, fronts, backs>>
    /\ UNCHANGED siblings

\* self.head.as_ref().map(|head| RefMut::map(head.borrow_mut(), |head| &mut head.elem))
PeekFrontMut ==
    /\ CanCallMut
    /\ Len(views) < MaxViews
    /\ op' = "peek_front_mut"
    /\ expect' = AbsEnd(TRUE)
    /\ IF head = NULL
       THEN /\ ret' = None
            /\ UNCHANGED <<heap, views, pc, local>>
       ELSE IF CanBorrowMut(heap, head)
       THEN /\ heap' = BorrowMut(heap, head)
            /\ views' = AddView(views, View(head, TRUE, TRUE))
            /\ ret' = heap[head].elem
            /\ UNCHANGED <<pc, local>>
       ELSE /\ pc' = "panicked"
            /\ UNCHANGED <<heap, views, ret, local>>
    /\ UNCHANGED <<head, tail, mode, abs, snap, fronts, backs>>
    /\ UNCHANGED siblings

\* mutant: peek_back_mut borrows the head node
PeekBackMut_Head ==
    /\ CanCallMut
    /\ Len(views) < MaxViews
    /\ op' = "peek_back_mut"
    /\ expect' = AbsEnd(FALSE)
    /\ IF head = NULL
       THEN /\ ret' = None
            /\ UNCHANGED <<heap, views, pc, local>>
       ELSE IF CanBorrowMut(heap, head)
       THEN /\ heap' = BorrowMut(heap, head)
            /\ views' = AddView(views, View(head, TRUE, FALSE))
            /\ ret' = heap[head].elem
            /\ UNCHANGED <<pc, local>>
       ELSE /\ pc' = "panicked"
            /\ UNCHANGED <<heap, views, ret, local>>
    /\ UNCHANGED <<head, tail, mode, abs, snap, fronts, backs>>
    /\ UNCHANGED siblings

\* self.tail.as_ref().map(|tail| RefMut::map(tail.borrow_mut(), |tail| &mut tail.elem))
PeekBackMut ==
    /\ CanCallMut
    /\ Len(views) < MaxViews
    /\ op' = "peek_back_mut"
    /\ expect' = AbsEnd(FALSE)
    /\ IF tail = NULL
       THEN /\ ret' = None
            /\ UNCHANGED <<heap, views, pc, local>>
       ELSE IF CanBorrowMut(heap, tail)
       THEN /\ heap' = BorrowMut(heap, tail)
            /\ views' = AddView(views, View(tail, TRUE, FALSE))
            /\ ret' = heap[tail].elem
            /\ UNCHANGED <<pc, local>>
       ELSE /\ pc' = "panicked"
            /\ UNCHANGED <<heap, views, ret, local>>
    /\ UNCHANGED <<head, tail, mode, abs, snap, fronts, backs>>
    /\ UNCHANGED siblings

\* *view = v through a RefMut: the element is written in place
WriteView(i, v) ==
    /\ pc = "idle"
    /\ views[i].mutable
    /\ ~views[i].leaked
    /\ heap' = [heap EXCEPT ![views[i].node].elem = v]
    /\ abs' = [abs EXCEPT ![EndPos(views[i].front)] = v]
    /\ op' = "write"
    /\ UNCHANGED <<head, tail, local, pc, mode, views, ret, expect, snap, fronts, backs>>
    /\ UNCHANGED siblings

\* the caller's view goes out of scope: Drop of Ref / RefMut releases the
\* borrow of the RefCell
DropView(i) ==
    /\ pc = "idle"
    /\ ~views[i].leaked
    /\ heap' = IF views[i].mutable THEN ReleaseMut(heap, views[i].node)
                                   ELSE Release(heap, views[i].node)
    /\ views' = RemoveAt(views, i)
    /\ UNCHANGED <<head, tail, local, pc, op, mode, ret, abs, expect, snap, fronts, backs>>
    /\ UNCHANGED siblings

\* mem::forget(view): the Ref / RefMut is never dropped, so the borrow flag
\* of the RefCell stays as the peek left it
ForgetView(i) ==
    /\ pc = "idle"
    /\ ~views[i].leaked
    /\ Cardinality({j \in 1..Len(views) : views[j].leaked}) < MaxLeaked
    /\ views' = AddView(RemoveAt(views, i), [views[i] EXCEPT !.leaked = TRUE])
    /\ UNCHANGED <<heap, head, tail, local, pc, op, mode, ret, abs, expect, snap, fronts, backs>>
    /\ UNCHANGED siblings

\* -------------------------------------------------------------- IntoIter
\* IntoIter(self): the list moves into the iterator
IntoIter ==
    /\ CanCallMut
    /\ mode' = "iter"
    /\ op' = "into_iter"
    /\ snap' = Contents
    /\ fronts' = <<>>
    /\ backs' = <<>>
    /\ UNCHANGED <<heap, head, tail, local, pc, views, ret, abs, expect>>
    /\ UNCHANGED siblings

\* mutant: next takes from the back
IterNext_Back ==
    /\ pc = "idle"
    /\ mode = "iter"
    /\ PopBackEnter("next")
    /\ UNCHANGED siblings

\* Iterator::next: self.0.pop_front()
IterNext ==
    /\ pc = "idle"
    /\ mode = "iter"
    /\ PopFrontEnter("next")
    /\ UNCHANGED siblings

IterNextReturn ==
    /\ pc = "next_ret"
    /\ fronts' = IF ret /= None THEN Append(fronts, ret) ELSE fronts
    /\ pc' = "idle"
    /\ UNCHANGED <<heap, head, tail, local, op, mode, views, ret, abs, expect, snap, backs>>
    /\ UNCHANGED siblings

\* mutant: next_back takes from the front
IterNextBack_Front ==
    /\ pc = "idle"
    /\ mode = "iter"
    /\ PopFrontEnter("next_back")
    /\ UNCHANGED siblings

\* DoubleEndedIterator::next_back: self.0.pop_back()
IterNextBack ==
    /\ pc = "idle"
    /\ mode = "iter"
    /\ PopBackEnter("next_back")
    /\ UNCHANGED siblings

IterNextBackReturn ==
    /\ pc = "next_back_ret"
    /\ backs' = IF ret /= None THEN Append(backs, ret) ELSE backs
    /\ pc' = "idle"
    /\ UNCHANGED <<heap, head, tail, local, op, mode, views, ret, abs, expect, snap, fronts>>
    /\ UNCHANGED siblings

\* ------------------------------------------------------------------ Drop
\* while self.pop_front().is_some() {}: the first call
DropList ==
    /\ pc = "idle"
    /\ mode \in {"list", "iter"}
    /\ NoViewHeld
    /\ PopFrontEnter("drop")
    /\ UNCHANGED siblings

\* mutant: an if in place of the while, a single pop_front
DropLoop_Once ==
    /\ pc = "drop_loop"
    /\ pc' = "idle"
    /\ mode' = "dropped"
    /\ UNCHANGED <<heap, head, tail, local, op, views, ret, abs, expect, snap, fronts, backs>>
    /\ UNCHANGED siblings

\* the loop test on the value pop_front returned
DropLoop ==
    /\ pc = "drop_loop"
    /\ IF ret /= None
       THEN PopFrontEnter("drop")
       ELSE /\ pc' = "idle"
            /\ mode' = "dropped"
            /\ UNCHANGED <<heap, head, tail, local, op, views, ret, abs, expect, snap, fronts, backs>>
    /\ UNCHANGED siblings

\* List::new() once more, after the previous list is gone
New ==
    /\ pc = "idle"
    /\ mode = "dropped"
    /\ head' = NULL
    /\ tail' = NULL
    /\ mode' = "list"
    /\ op' = "new"
    /\ ret' = None
    /\ expect' = None
    /\ abs' = <<>>
    /\ snap' = <<>>
    /\ fronts' = <<>>
    /\ backs' = <<>>
    /\ UNCHANGED <<heap, local, pc, views>>
    /\ UNCHANGED siblings

\* ------------------------------------------------------------------ Next
Next ==
    \/ \E e \in Elems : PushFront(e)
    \/ PushFrontSetPrev
    \/ PushFrontSetNext
    \/ PushFrontSetHead
    \/ PushFrontEmptyTail
    \/ PushFrontEmptyHead
    \/ PopFront
    \/ PopFrontTakeNext
    \/ PopFrontClearPrev
    \/ PopFrontSetHead
    \/ PopFrontClearTail
    \/ PopFrontEndMatch
    \/ PopFrontUnwrap
    \/ \E e \in Elems : PushBack(e)
    \/ PushBackSetNext
    \/ PushBackSetPrev
    \/ PushBackSetTail
    \/ PushBackEmptyHead
    \/ PushBackEmptyTail
    \/ PopBack
    \/ PopBackTakePrev
    \/ PopBackClearNext
    \/ PopBackSetTail
    \/ PopBackClearHead
    \/ PopBackEndMatch
    \/ PopBackUnwrap
    \/ PeekFront
    \/ PeekBack
    \/ PeekFrontMut
    \/ PeekBackMut
    \/ \E i \in 1..Len(views), v \in Elems : WriteView(i, v)
    \/ \E i \in 1..Len(views) : DropView(i)
    \/ \E i \in 1..Len(views) : ForgetView(i)
    \/ IntoIter
    \/ IterNext
    \/ IterNextReturn
    \/ IterNextBack
    \/ IterNextBackReturn
    \/ DropList
    \/ DropLoop
    \/ New

\* ------------------------------------------------------------ properties
TypeOK ==
    /\ head \in Nodes \cup {NULL}
    /\ tail \in Nodes \cup {NULL}
    /\ \A n \in Nodes : heap[n].strong \in 0..3 /\ heap[n].borrow \in -1..MaxViews
    /\ Len(views) <= MaxViews

FreshHeap == [n \in Nodes |-> FreeNode]

\* C1: between operations the elements met from head along the next links
\* are the abstract sequence (push_front prepends, push_back appends, the
\* pops remove the first / last element), and the value an operation
\* returned is the value the abstract operation returns, None exactly when
\* the sequence was empty.
C1_RefinesSequence ==
    pc = "idle" => (Contents = abs /\ ret = expect)

C1_Witness ==
    /\ pc = "idle"
    /\ op = "pop_back"
    /\ ret /= None
    /\ Len(abs) = 2
    /\ abs[1] /= abs[2]
    /\ Contents = abs

\* C2: between operations the walk from tail along the prev links meets the
\* nodes of the walk from head along the next links in reverse order, and
\* every adjacent pair A, B has A.next = B and B.prev = A.
C2_Bidirectional ==
    pc = "idle" =>
        /\ Backward = Reverse(Forward)
        /\ \A i \in 1..(Len(Forward) - 1) :
              /\ heap[Forward[i]].next = Forward[i + 1]
              /\ heap[Forward[i + 1]].prev = Forward[i]

C2_Witness ==
    /\ pc = "idle"
    /\ op = "pop_front"
    /\ ret /= None
    /\ Len(Forward) = 2
    /\ Backward = Reverse(Forward)

\* C3: between operations head is absent iff tail is absent iff the deque
\* holds no element; a pop_front (pop_back) that removed the last element
\* has cleared tail (head) when it extracts the element.
C3_HeadTailEmpty ==
    /\ pc = "idle" => ((head = NULL) <=> (tail = NULL)) /\ ((head = NULL) <=> (abs = <<>>))
    /\ (pc = "pop_front_unwrap" /\ head = NULL) => tail = NULL
    /\ (pc = "pop_back_unwrap" /\ tail = NULL) => head = NULL

C3_Witness ==
    /\ pc = "pop_front_unwrap"
    /\ head = NULL
    /\ tail = NULL
    /\ heap[local.oldhead].elem /= None

\* C4: a pop_front or pop_back called on an empty deque returns None at once
\* and leaves head and tail absent and the heap as new() left it, however
\* often it is repeated.
C4_PopEmpty ==
    [][(pc = "idle" /\ mode = "list" /\ head = NULL /\ tail = NULL
            /\ op' \in {"pop_front", "pop_back"})
        => (/\ pc' = "idle"
            /\ ret' = None
            /\ head' = NULL
            /\ tail' = NULL
            /\ heap' = heap
            /\ heap' = FreshHeap
            /\ abs' = <<>>)]_vars

C4_Witness ==
    /\ pc = "idle"
    /\ mode = "list"
    /\ op = "pop_back"
    /\ ret = None
    /\ head = NULL
    /\ tail = NULL
    /\ heap = FreshHeap

\* C5: when pop_front or pop_back reaches Rc::try_unwrap, the removed node
\* has exactly one strong reference, so the unwrap never panics.
C5_UniqueAtUnwrap ==
    /\ pc = "pop_front_unwrap" => heap[local.oldhead].strong = 1
    /\ pc = "pop_back_unwrap" => heap[local.oldtail].strong = 1

C5_Witness ==
    /\ pc = "pop_front_unwrap"
    /\ head /= NULL
    /\ heap[head].prev = NULL
    /\ heap[local.oldhead].strong = 1

\* an IntoIter that was drained from the front only / from the back only
DrainedByNext == mode = "iter" /\ pc = "idle" /\ head = NULL /\ backs = <<>>
DrainedByNextBack == mode = "iter" /\ pc = "idle" /\ head = NULL /\ fronts = <<>>

\* C6 (as stated): the elements from head to tail are the reverse of the
\* order in which repeated pop_front calls return them.
C6_Original == DrainedByNext => snap = Reverse(fronts)

\* C6 (amended): the elements from head to tail are exactly the order in
\* which repeated pop_front calls return them.
C6_ForwardIsPopFrontOrder == DrainedByNext => snap = fronts

C6_Witness ==
    /\ DrainedByNext
    /\ Len(snap) = 3
    /\ snap[1] /= snap[3]
    /\ fronts = snap

\* C7: the elements from head to tail are the order in which repeated
\* pop_back calls return them, read backward.
C7_ForwardIsPopBackReversed == DrainedByNextBack => snap = Reverse(backs)

C7_Witness ==
    /\ DrainedByNextBack
    /\ Len(snap) = 3
    /\ snap[1] /= snap[3]
    /\ backs = Reverse(snap)

\* C8: under any interleaving of next and next_back the values of next are
\* a prefix of the contents front to back, those of next_back a prefix back
\* to front, the two never overlap, what is left in the list is exactly
\* what lies between them, and a call returns None exactly when everything
\* was yielded before it.
C8_IterInterleaved ==
    /\ (mode = "iter" /\ pc = "idle") =>
          /\ Len(fronts) + Len(backs) <= Len(snap)
          /\ fronts = SubSeq(snap, 1, Len(fronts))
          /\ backs = SubSeq(Reverse(snap), 1, Len(backs))
          /\ Contents = SubSeq(snap, Len(fronts) + 1, Len(snap) - Len(backs))
    /\ pc \in {"next_ret", "next_back_ret"} =>
          ((ret = None) <=> (Len(fronts) + Len(backs) = Len(snap)))

C8_Witness ==
    /\ mode = "iter"
    /\ pc = "idle"
    /\ op = "next_back"
    /\ ret = None
    /\ Len(snap) = 3
    /\ Len(fronts) = 2
    /\ Len(backs) = 1
    /\ snap[1] /= snap[3]

IsPeek == PeekFront \/ PeekBack \/ PeekFrontMut \/ PeekBackMut
IsDropView == \E i \in 1..Len(views) : DropView(i)
\* head, tail, every link, every element and every strong count stay
LinksAndElemsUnchanged ==
    /\ head' = head
    /\ tail' = tail
    /\ \A n \in Nodes :
          /\ heap'[n].elem = heap[n].elem
          /\ heap'[n].next = heap[n].next
          /\ heap'[n].prev = heap[n].prev
          /\ heap'[n].strong = heap[n].strong

\* C9: every view a peek returned looks at the node of its end, whose
\* element is the one the pop of that end returns next; a peek that
\* returns gives None exactly when the deque is empty; taking a view and
\* releasing it changes neither head, tail, a link nor an element, and
\* with the last view released every node is unborrowed again.
C9_Peek ==
    /\ [](pc = "idle" =>
            /\ \A i \in 1..Len(views) :
                  /\ views[i].node = (IF views[i].front THEN head ELSE tail)
                  /\ heap[views[i].node].elem = AbsEnd(views[i].front)
            /\ (views = <<>> => \A n \in Nodes : heap[n].borrow = 0))
    /\ [][((PeekFront \/ PeekFrontMut) /\ pc' = "idle") => ret' = AbsEnd(TRUE)]_vars
    /\ [][((PeekBack \/ PeekBackMut) /\ pc' = "idle") => ret' = AbsEnd(FALSE)]_vars
    /\ [][(IsPeek /\ pc' = "idle")
            => ((ret' = None) <=> (abs = <<>>)) /\ ((ret' = None) <=> (views' = views))]_vars
    /\ [][(IsPeek \/ IsDropView) => LinksAndElemsUnchanged]_vars

C9_Witness ==
    /\ pc = "idle"
    /\ op = "peek_back"
    /\ Len(views) = 2
    /\ views[1].front
    /\ ~views[2].front
    /\ head /= tail
    /\ ret = heap[tail].elem
    /\ heap[head].elem /= heap[tail].elem

\* C10: a write of v through the exclusive view of an end replaces the
\* element of that end in place: the nodes and their order stay, every
\* other element stays, and the peeks and pops that follow return what the
\* sequence with v in that place returns.
C10_WriteInPlace ==
    /\ [][\A i \in 1..Len(views) : \A v \in Elems :
            WriteView(i, v) =>
                /\ Contents /= <<>>
                /\ Contents' = [Contents EXCEPT ![IF views[i].front THEN 1 ELSE Len(Contents)] = v]
                /\ abs' = Contents'
                /\ Forward' = Forward
                /\ Backward' = Backward]_vars
    /\ [](pc = "idle" /\ op \in {"peek_front", "peek_back", "pop_front", "pop_back"}
            => ret = expect)

C10_Witness ==
    /\ pc = "idle"
    /\ op = "write"
    /\ Len(views) = 1
    /\ views[1].mutable
    /\ ~views[1].front
    /\ Len(Contents) = 3
    /\ Contents[3] /= Contents[1]
    /\ Contents[3] /= Contents[2]

\* the views of node n that were taken and not released
ViewsOf(n) == {i \in 1..Len(views) : views[i].node = n}
\* the node a peek of the front / of the back borrows
FrontPeek == PeekFront \/ PeekFrontMut
BackPeek == PeekBack \/ PeekBackMut
Aborts == pc' = "panicked" /\ views' = views /\ heap' = heap

\* C11: while a shared view of a node is outstanding, peek_front_mut and
\* peek_back_mut of that node panic and return no view; no node ever has a
\* shared and an exclusive view at the same time.
C11_SharedBlocksExclusive ==
    /\ [][(PeekFrontMut /\ head /= NULL /\ heap[head].borrow > 0) => Aborts]_vars
    /\ [][(PeekBackMut /\ tail /= NULL /\ heap[tail].borrow > 0) => Aborts]_vars
    /\ [](\A i, j \in 1..Len(views) :
            (views[i].node = views[j].node /\ ~views[i].mutable) => ~views[j].mutable)

C11_Witness ==
    /\ pc = "panicked"
    /\ op = "peek_front_mut"
    /\ Len(views) = 1
    /\ views[1].node = head
    /\ views[1].front
    /\ ~views[1].mutable
    /\ heap[head].borrow = 1

\* C12: while an exclusive view of a node is outstanding, every peek of
\* that node panics and returns no view; a node has at most one exclusive
\* view, and that view is the only view of the node.
C12_ExclusiveBlocksAll ==
    /\ [][(FrontPeek /\ head /= NULL /\ heap[head].borrow < 0) => Aborts]_vars
    /\ [][(BackPeek /\ tail /= NULL /\ heap[tail].borrow < 0) => Aborts]_vars
    /\ [](\A i \in 1..Len(views) : views[i].mutable => ViewsOf(views[i].node) = {i})

C12_Witness ==
    /\ pc = "panicked"
    /\ op = "peek_back"
    /\ Len(views) = 1
    /\ views[1].node = tail
    /\ views[1].mutable
    /\ heap[tail].borrow = -1

\* the abstract sequence before the running operation was called
PreAbs ==
    CASE op = "push_front" -> Tail(abs)
      [] op = "push_back" -> SubSeq(abs, 1, Len(abs) - 1)
      [] op \in {"pop_front", "next", "drop"} ->
            IF expect = None THEN abs ELSE <<expect>> \o abs
      [] op \in {"pop_back", "next_back"} ->
            IF expect = None THEN abs ELSE abs \o <<expect>>
      [] OTHER -> abs

\* C13: an operation that aborts leaves head, tail, the links and the
\* elements as they were before the call: the elements met from head are
\* those of before the call, the walk from tail is the reverse walk, and
\* head and tail are absent together.
C13_AbortIsAtomic ==
    pc = "panicked" =>
        /\ Contents = PreAbs
        /\ Backward = Reverse(Forward)
        /\ (head = NULL) <=> (tail = NULL)

\* the RefCell flag the views of node n account for
ViewFlag(n) ==
    IF \E i \in ViewsOf(n) : views[i].mutable THEN -1 ELSE Cardinality(ViewsOf(n))
Unborrowed == \A n \in Nodes : heap[n].borrow = 0

\* C14 (as stated): from any reachable state the teardown runs pop_front
\* until None, never aborts, and leaves head and tail absent and no node
\* allocated.
C14_Original ==
    /\ op = "drop" => pc /= "panicked"
    /\ mode = "dropped" => (head = NULL /\ tail = NULL /\ Live(heap) = {})

\* C14 (amended): from any reachable state in which no node is borrowed,
\* the teardown never aborts; every pop_front of the loop that finds an
\* element removes exactly that one, the loop ends at the first None,
\* which is returned when no element is left, and then head and tail are
\* absent and no node is allocated.
C14_DropDrains ==
    /\ [][(op' = "drop" /\ pc \in {"idle", "drop_loop"} /\ mode' = mode /\ head /= NULL)
            => (abs = <<heap[head].elem>> \o abs' /\ pc' = "pop_front_take_next")]_vars
    /\ [][(pc = "drop_loop" /\ mode' = "dropped")
            => (ret = None /\ abs = <<>>)]_vars
    /\ []((op = "drop" /\ views = <<>>) => pc /= "panicked")
    /\ []((op = "drop" /\ views = <<>> /\ pc = "drop_loop" /\ ret /= None)
            => Cardinality(Live(heap)) = Len(abs))
    /\ []((mode = "dropped" /\ views = <<>>)
            => (head = NULL /\ tail = NULL /\ Live(heap) = {}))

\* an IntoIter that still held elements was dropped, and the teardown of
\* its list has popped them all
C14_Witness ==
    /\ mode = "dropped"
    /\ op = "drop"
    /\ pc = "idle"
    /\ snap /= <<>>
    /\ Len(fronts) + Len(backs) < Len(snap)
    /\ Live(heap) = {}

C16_EndLinksAbsent ==
    pc = "idle" =>
        /\ head /= NULL => heap[head].prev = NULL
        /\ tail /= NULL => heap[tail].next = NULL
        /\ Len(abs) = 1 =>
              (head = tail /\ head /= NULL /\ heap[head].next = NULL /\ heap[head].prev = NULL)

C16_Witness ==
    /\ pc = "idle"
    /\ op = "pop_front"
    /\ ret /= None
    /\ Len(abs) = 1
    /\ head = tail
    /\ heap[head].next = NULL
    /\ heap[head].prev = NULL

\* ======================================================================
\* bad_stack.rs and ok_stack.rs: stacks of boxed nodes.  A list value is
\* its head with the boxes it owns; a box is a node at an address.
StackNodes == 1..MaxStack

\* enum Link { Empty, More(Box<Node>) }
Empty == [tag |-> "Empty", node |-> NULL]
More(n) == [tag |-> "More", node |-> n]

\* an address with no Box; ok_stack nodes link by Option<Box<Node<T>>>,
\* bad_stack nodes by Link
NoBox == [elem |-> None, next |-> NULL, boxed |-> FALSE]
BadNoBox == [elem |-> None, next |-> Empty, boxed |-> FALSE]
StackFree(l) == {n \in StackNodes : ~l.nodes[n].boxed}
\* the address Box::new returns: a free one, and which one makes no
\* difference to a list, so the lowest
NewBox(l) == CHOOSE n \in StackFree(l) : \A m \in StackFree(l) : n <= m

\* the drop glue of Option<Box<Node<T>>>: the Box at n is freed, and the
\* Box in its next field with it, and so on down the chain
RECURSIVE OkBoxDrop(_, _)
OkBoxDrop(nodes, n) ==
    IF n = NULL \/ ~nodes[n].boxed THEN nodes
    ELSE OkBoxDrop([nodes EXCEPT ![n] = NoBox], nodes[n].next)

\* the drop glue of Link: the same for Link::More(Box<Node>)
RECURSIVE BadBoxDrop(_, _)
BadBoxDrop(nodes, l) ==
    IF l.tag = "Empty" \/ ~nodes[l.node].boxed THEN nodes
    ELSE BadBoxDrop([nodes EXCEPT ![l.node] = BadNoBox], nodes[l.node].next)

\* List { head: None }
OkNew(nodes) == [head |-> NULL, nodes |-> nodes]
\* List { head: Link::Empty }
BadNew(nodes) == [head |-> Empty, nodes |-> nodes]

\* mutant: the new node is made with next: None
OkPush_NoNext(l, n, e) ==
    LET taken == [l EXCEPT !.head = NULL]
        newhead == [elem |-> e, next |-> NULL, boxed |-> TRUE]
    IN [taken EXCEPT !.nodes[n] = newhead, !.head = n]

\* Box::new(Node { elem, next: self.head.take() }) at address n;
\* self.head = Some(newhead)
OkPush(l, n, e) ==
    LET taken == [l EXCEPT !.head = NULL]
        newhead == [elem |-> e, next |-> l.head, boxed |-> TRUE]
    IN [taken EXCEPT !.nodes[n] = newhead, !.head = n]

\* self.head.take().map(|head| { self.head = head.next; head.elem })
OkPop(l) ==
    LET taken == [l EXCEPT !.head = NULL]
    IN IF l.head = NULL
       THEN [list |-> taken, ret |-> None]
       ELSE [list |-> [taken EXCEPT !.head = l.nodes[l.head].next,
                                    !.nodes[l.head] = NoBox],
             ret |-> l.nodes[l.head].elem]

\* Box::new(Node { elem, next: mem::replace(&mut self.head, Link::Empty) })
\* at address n; self.head = Link::More(newhead)
BadPush(l, n, e) ==
    LET replaced == [l EXCEPT !.head = Empty]
        newhead == [elem |-> e, next |-> l.head, boxed |-> TRUE]
    IN [replaced EXCEPT !.nodes[n] = newhead, !.head = More(n)]

\* let Link::More(oldhead) = mem::replace(&mut self.head, Link::Empty)
\* else { return None }; self.head = oldhead.next; Some(oldhead.elem)
BadPop(l) ==
    LET replaced == [l EXCEPT !.head = Empty]
    IN IF l.head.tag = "More"
       THEN [list |-> [replaced EXCEPT !.head = l.nodes[l.head.node].next,
                                       !.nodes[l.head.node] = BadNoBox],
             ret |-> l.nodes[l.head.node].elem]
       ELSE [list |-> replaced, ret |-> None]

\* the values successive pops of l return, up to the first None
RECURSIVE PopOrder(_)
PopOrder(l) ==
    LET r == OkPop(l)
    IN IF r.ret = None THEN <<>> ELSE <<r.ret>> \o PopOrder(r.list)

RECURSIVE BadPopOrder(_)
BadPopOrder(l) ==
    LET r == BadPop(l)
    IN IF r.ret = None THEN <<>> ELSE <<r.ret>> \o BadPopOrder(r.list)

notStacks == <<dequeVars, queueVars, sharedVars>>
stackIterVars == <<cursor, yielded, ssnap>>

InitStacks ==
    /\ okList = OkNew([n \in StackNodes |-> NoBox])
    /\ badList = BadNew([n \in StackNodes |-> BadNoBox])
    /\ okRet = None
    /\ badRet = None
    /\ sop = "new"
    /\ sabs = <<>>
    /\ smode = "list"
    /\ cursor = NULL
    /\ yielded = <<>>
    /\ ssnap = <<>>
    /\ okCur = NULL
    /\ badCur = Empty

\* list.push(e) on the bad_stack list and on the ok_stack list
StackPush(e) ==
    /\ smode = "list"
    /\ StackFree(okList) /= {}
    /\ StackFree(badList) /= {}
    /\ okList' = OkPush(okList, NewBox(okList), e)
    /\ badList' = BadPush(badList, NewBox(badList), e)
    /\ sop' = "push"
    /\ sabs' = <<e>> \o sabs
    /\ UNCHANGED <<okRet, badRet, smode, stackIterVars, okCur, badCur>>
    /\ UNCHANGED notStacks

\* list.pop() on the bad_stack list and on the ok_stack list
StackPop ==
    /\ smode = "list"
    /\ okList' = OkPop(okList).list
    /\ okRet' = OkPop(okList).ret
    /\ badList' = BadPop(badList).list
    /\ badRet' = BadPop(badList).ret
    /\ sop' = "pop"
    /\ sabs' = IF sabs = <<>> THEN <<>> ELSE Tail(sabs)
    /\ UNCHANGED <<smode, stackIterVars, okCur, badCur>>
    /\ UNCHANGED notStacks

\* Iter { next: self.head.as_deref() }
OkIter ==
    /\ smode = "list"
    /\ smode' = "iter"
    /\ cursor' = okList.head
    /\ yielded' = <<>>
    /\ ssnap' = PopOrder(okList)
    /\ sop' = "iter"
    /\ UNCHANGED <<okList, badList, okRet, badRet, sabs, okCur, badCur>>
    /\ UNCHANGED notStacks

\* self.next.map(|node| { self.next = node.next.as_deref(); &node.elem })
OkIterNext ==
    /\ smode = "iter"
    /\ sop' = "next"
    /\ IF cursor = NULL
       THEN /\ okRet' = None
            /\ UNCHANGED <<cursor, yielded>>
       ELSE /\ cursor' = okList.nodes[cursor].next
            /\ okRet' = okList.nodes[cursor].elem
            /\ yielded' = Append(yielded, okList.nodes[cursor].elem)
    /\ UNCHANGED <<okList, badList, badRet, sabs, smode, ssnap, okCur, badCur>>
    /\ UNCHANGED notStacks

\* IterMut { next: self.head.as_deref_mut() }
OkIterMut ==
    /\ smode = "list"
    /\ smode' = "iter_mut"
    /\ cursor' = okList.head
    /\ yielded' = <<>>
    /\ ssnap' = PopOrder(okList)
    /\ sop' = "iter_mut"
    /\ UNCHANGED <<okList, badList, okRet, badRet, sabs, okCur, badCur>>
    /\ UNCHANGED notStacks

\* self.next.take().map(|node| { self.next = node.next.as_deref_mut();
\* &mut node.elem })
OkIterMutNext ==
    /\ smode = "iter_mut"
    /\ sop' = "next"
    /\ LET node == cursor
           taken == NULL
       IN IF node = NULL
          THEN /\ okRet' = None
               /\ cursor' = taken
               /\ UNCHANGED yielded
          ELSE /\ cursor' = okList.nodes[node].next
               /\ okRet' = okList.nodes[node].elem
               /\ yielded' = Append(yielded, okList.nodes[node].elem)
    /\ UNCHANGED <<okList, badList, badRet, sabs, smode, ssnap, okCur, badCur>>
    /\ UNCHANGED notStacks

\* the Iter or IterMut goes out of scope and its borrow of the list ends
OkIterEnd ==
    /\ smode \in {"iter", "iter_mut"}
    /\ smode' = "list"
    /\ cursor' = NULL
    /\ yielded' = <<>>
    /\ ssnap' = <<>>
    /\ sop' = "iter_end"
    /\ UNCHANGED <<okList, badList, okRet, badRet, sabs, okCur, badCur>>
    /\ UNCHANGED notStacks

\* IntoIter(self)
OkIntoIter ==
    /\ smode = "list"
    /\ smode' = "into_iter"
    /\ yielded' = <<>>
    /\ ssnap' = PopOrder(okList)
    /\ sop' = "into_iter"
    /\ UNCHANGED <<okList, badList, okRet, badRet, sabs, cursor, okCur, badCur>>
    /\ UNCHANGED notStacks

\* self.0.pop()
OkIntoIterNext ==
    /\ smode = "into_iter"
    /\ sop' = "next"
    /\ okList' = OkPop(okList).list
    /\ okRet' = OkPop(okList).ret
    /\ yielded' = IF OkPop(okList).ret = None
                  THEN yielded ELSE Append(yielded, OkPop(okList).ret)
    /\ UNCHANGED <<badList, badRet, sabs, smode, cursor, ssnap, okCur, badCur>>
    /\ UNCHANGED notStacks

\* both lists (the ok_stack one maybe inside its IntoIter) go out of scope:
\* let mut current = self.head.take();
\* let mut current = mem::replace(&mut self.head, Link::Empty);
StackDrop ==
    /\ smode \in {"list", "into_iter"}
    /\ smode' = "dropping"
    /\ okCur' = okList.head
    /\ okList' = [okList EXCEPT !.head = NULL]
    /\ badCur' = badList.head
    /\ badList' = [badList EXCEPT !.head = Empty]
    /\ sop' = "drop"
    /\ yielded' = <<>>
    /\ ssnap' = <<>>
    /\ UNCHANGED <<okRet, badRet, sabs, cursor>>
    /\ UNCHANGED notStacks

\* mutant: current = boxed_node.next without the take, so the Box is
\* dropped with its next link still in it
OkDropStep_NoTake ==
    /\ smode = "dropping"
    /\ okCur /= NULL
    /\ okCur' = okList.nodes[okCur].next
    /\ okList' = [okList EXCEPT !.nodes = OkBoxDrop(okList.nodes, okCur)]
    /\ UNCHANGED <<badList, okRet, badRet, sop, sabs, smode, stackIterVars, badCur>>
    /\ UNCHANGED notStacks

\* while let Some(mut boxed_node) = current
\*     { current = boxed_node.next.take(); }   and boxed_node is dropped
OkDropStep ==
    /\ smode = "dropping"
    /\ okCur /= NULL
    /\ okCur' = okList.nodes[okCur].next
    /\ okList' = [okList EXCEPT !.nodes = OkBoxDrop([okList.nodes EXCEPT ![okCur].next = NULL], okCur)]
    /\ UNCHANGED <<badList, okRet, badRet, sop, sabs, smode, stackIterVars, badCur>>
    /\ UNCHANGED notStacks

\* while let Link::More(mut boxed_node) = current
\*     { current = mem::replace(&mut boxed_node.next, Link::Empty) }
BadDropStep ==
    /\ smode = "dropping"
    /\ badCur.tag = "More"
    /\ badCur' = badList.nodes[badCur.node].next
    /\ badList' = [badList EXCEPT !.nodes = BadBoxDrop([badList.nodes EXCEPT ![badCur.node].next = Empty], badCur)]
    /\ UNCHANGED <<okList, okRet, badRet, sop, sabs, smode, stackIterVars, okCur>>
    /\ UNCHANGED notStacks

\* both drops have returned; List::new() of both modules
StackNew ==
    /\ smode = "dropping"
    /\ okCur = NULL
    /\ badCur = Empty
    /\ okList' = OkNew(okList.nodes)
    /\ badList' = BadNew(badList.nodes)
    /\ okRet' = None
    /\ badRet' = None
    /\ sop' = "new"
    /\ sabs' = <<>>
    /\ smode' = "list"
    /\ UNCHANGED <<stackIterVars, okCur, badCur>>
    /\ UNCHANGED notStacks

NextStacks ==
    \/ \E e \in Elems : StackPush(e)
    \/ StackPop
    \/ OkIter
    \/ OkIterNext
    \/ OkIterMut
    \/ OkIterMutNext
    \/ OkIterEnd
    \/ OkIntoIter
    \/ OkIntoIterNext
    \/ StackDrop
    \/ OkDropStep
    \/ BadDropStep
    \/ StackNew

\* ======================================================================
\* ok_unsafe_queue.rs: a queue of nodes behind raw pointers.  head and tail
\* are addresses (NULL is ptr::null_mut()); a node is live from
\* Box::into_raw until the Box made by Box::from_raw is dropped.
QueueNodes == 1..MaxQueue

Freed == [elem |-> None, next |-> NULL, live |-> FALSE]
QueueFree(l) == {n \in QueueNodes : ~l.nodes[n].live}
\* a raw pointer that is not null and points at a freed node
Dangling(l, ptr) == ptr /= NULL /\ ~l.nodes[ptr].live

\* List { head: ptr::null_mut(), tail: ptr::null_mut() }
QueueNew == [head |-> NULL, tail |-> NULL, nodes |-> [n \in QueueNodes |-> Freed]]

\* mutant: self.tail = newtail is left out
QueuePushOn_NoTail(l, n, e) ==
    LET made == [l EXCEPT !.nodes[n] = [elem |-> e, next |-> NULL, live |-> TRUE]]
        linked == IF l.tail /= NULL
                  THEN [made EXCEPT !.nodes[l.tail].next = n]
                  ELSE [made EXCEPT !.head = n]
    IN [list |-> linked, ub |-> Dangling(l, l.tail)]

\* let newtail = Box::into_raw(Box::new(Node { elem, next: null })) at n;
\* if !self.tail.is_null() { (*self.tail).next = newtail }
\* else { self.head = newtail }; self.tail = newtail
QueuePushOn(l, n, e) ==
    LET made == [l EXCEPT !.nodes[n] = [elem |-> e, next |-> NULL, live |-> TRUE]]
        linked == IF l.tail /= NULL
                  THEN [made EXCEPT !.nodes[l.tail].next = n]
                  ELSE [made EXCEPT !.head = n]
    IN [list |-> [linked EXCEPT !.tail = n], ub |-> Dangling(l, l.tail)]

\* mutant: tail is left as it is when the last node is popped
QueuePopOff_KeepTail(l) ==
    IF l.head = NULL
    THEN [list |-> l, ret |-> None, ub |-> FALSE]
    ELSE [list |-> [l EXCEPT !.head = l.nodes[l.head].next, !.nodes[l.head] = Freed],
          ret |-> l.nodes[l.head].elem,
          ub |-> Dangling(l, l.head)]

\* if self.head.is_null() { None } else {
\*     let oldhead = Box::from_raw(self.head); self.head = oldhead.next;
\*     if self.head.is_null() { self.tail = ptr::null_mut() }
\*     Some(oldhead.elem) }
QueuePopOff(l) ==
    IF l.head = NULL
    THEN [list |-> l, ret |-> None, ub |-> FALSE]
    ELSE LET newhead == l.nodes[l.head].next
             moved == [l EXCEPT !.head = newhead, !.nodes[l.head] = Freed]
         IN [list |-> IF newhead = NULL THEN [moved EXCEPT !.tail = NULL] ELSE moved,
             ret |-> l.nodes[l.head].elem,
             ub |-> Dangling(l, l.head)]

\* self.head.as_ref().map(|node| &node.elem)
QueuePeekAt(l) ==
    [ret |-> IF l.head = NULL THEN None ELSE l.nodes[l.head].elem,
     ub |-> Dangling(l, l.head)]

\* *elem = v through the &mut T a peek_mut or an IterMut gave
QueueWrite(l, ptr, v) == [l EXCEPT !.nodes[ptr].elem = v]

\* mutant: the view is into the node of tail
QueuePeekMutAt_Tail(l, v) ==
    [list |-> IF l.tail = NULL THEN l ELSE QueueWrite(l, l.tail, v),
     ret |-> IF l.tail = NULL THEN None ELSE l.nodes[l.tail].elem,
     ub |-> Dangling(l, l.tail)]

\* self.head.as_mut().map(|node| &mut node.elem), and *x = v on the result
QueuePeekMutAt(l, v) ==
    [list |-> IF l.head = NULL THEN l ELSE QueueWrite(l, l.head, v),
     ret |-> IF l.head = NULL THEN None ELSE l.nodes[l.head].elem,
     ub |-> Dangling(l, l.head)]

\* the lists a call can leave behind: the one computed, or, when the call
\* dereferenced a freed node, any list over the same addresses
Outcomes(r) ==
    IF r.ub
    THEN {r.list, [r.list EXCEPT !.head = NULL, !.tail = NULL], QueueNew}
    ELSE {r.list}

\* the elements met from head along next, with a bound on the walk
RECURSIVE QueueWalk(_, _, _)
QueueWalk(l, ptr, fuel) ==
    IF ptr = NULL \/ fuel = 0
    THEN <<>>
    ELSE <<l.nodes[ptr].elem>> \o QueueWalk(l, l.nodes[ptr].next, fuel - 1)
QueueContents(l) == QueueWalk(l, l.head, MaxQueue + 1)

\* the last node met from ptr along next, NULL from NULL
RECURSIVE QueueLast(_, _, _)
QueueLast(l, ptr, fuel) ==
    IF ptr = NULL \/ fuel = 0 \/ l.nodes[ptr].next = NULL
    THEN ptr
    ELSE QueueLast(l, l.nodes[ptr].next, fuel - 1)

notQueue == <<dequeVars, stackVars, sharedVars>>
queueIterVars == <<qmode, qcursor, qyielded, qsnap>>

InitQueue ==
    /\ qList = QueueNew
    /\ qRet = None
    /\ qop = "new"
    /\ qabs = <<>>
    /\ qemptied = FALSE
    /\ qub = FALSE
    /\ qmode = "list"
    /\ qcursor = NULL
    /\ qyielded = <<>>
    /\ qsnap = <<>>

\* list.push(e)
QueuePush(e) ==
    /\ qmode = "list"
    /\ \E n \in QueueFree(qList) : \E l \in Outcomes(QueuePushOn(qList, n, e)) :
          /\ qList' = l
          /\ qub' = (qub \/ QueuePushOn(qList, n, e).ub)
    /\ qop' = "push"
    /\ qabs' = Append(qabs, e)
    /\ UNCHANGED <<qRet, qemptied, queueIterVars>>
    /\ UNCHANGED notQueue

\* list.pop()
QueuePop ==
    /\ qmode = "list"
    /\ \E l \in Outcomes(QueuePopOff(qList)) : qList' = l
    /\ qRet' = QueuePopOff(qList).ret
    /\ qub' = (qub \/ QueuePopOff(qList).ub)
    /\ qop' = "pop"
    /\ qabs' = IF qabs = <<>> THEN <<>> ELSE Tail(qabs)
    /\ qemptied' = (qemptied \/ Len(qabs) = 1)
    /\ UNCHANGED queueIterVars
    /\ UNCHANGED notQueue

\* list.peek()
QueuePeek ==
    /\ qmode = "list"
    /\ qRet' = QueuePeekAt(qList).ret
    /\ qub' = (qub \/ QueuePeekAt(qList).ub)
    /\ qop' = "peek"
    /\ UNCHANGED <<qList, qabs, qemptied, queueIterVars>>
    /\ UNCHANGED notQueue

\* if let Some(x) = list.peek_mut() { *x = v }
QueuePeekMut(v) ==
    /\ qmode = "list"
    /\ \E l \in Outcomes(QueuePeekMutAt(qList, v)) : qList' = l
    /\ qRet' = QueuePeekMutAt(qList, v).ret
    /\ qub' = (qub \/ QueuePeekMutAt(qList, v).ub)
    /\ qop' = "peek_mut"
    /\ qabs' = IF qabs = <<>> THEN <<>> ELSE <<v>> \o Tail(qabs)
    /\ UNCHANGED <<qemptied, queueIterVars>>
    /\ UNCHANGED notQueue

\* IntoIterator::into_iter(&list): Iter { next: self.head.as_ref() }
QueueIter ==
    /\ qmode = "list"
    /\ qmode' = "iter"
    /\ qcursor' = qList.head
    /\ qyielded' = <<>>
    /\ qsnap' = QueueContents(qList)
    /\ qub' = (qub \/ Dangling(qList, qList.head))
    /\ qop' = "iter"
    /\ UNCHANGED <<qList, qRet, qabs, qemptied>>
    /\ UNCHANGED notQueue

\* self.next.map(|node| { self.next = node.next.as_ref(); &node.elem })
QueueIterNext ==
    /\ qmode = "iter"
    /\ qop' = "next"
    /\ IF qcursor = NULL
       THEN /\ qRet' = None
            /\ UNCHANGED <<qcursor, qyielded, qub>>
       ELSE /\ qcursor' = qList.nodes[qcursor].next
            /\ qRet' = qList.nodes[qcursor].elem
            /\ qyielded' = Append(qyielded, qList.nodes[qcursor].elem)
            /\ qub' = (qub \/ Dangling(qList, qList.nodes[qcursor].next))
    /\ UNCHANGED <<qList, qabs, qemptied, qmode, qsnap>>
    /\ UNCHANGED notQueue

\* IntoIterator::into_iter(&mut list): IterMut { next: self.head.as_mut() }
QueueIterMut ==
    /\ qmode = "list"
    /\ qmode' = "iter_mut"
    /\ qcursor' = qList.head
    /\ qyielded' = <<>>
    /\ qsnap' = QueueContents(qList)
    /\ qub' = (qub \/ Dangling(qList, qList.head))
    /\ qop' = "iter_mut"
    /\ UNCHANGED <<qList, qRet, qabs, qemptied>>
    /\ UNCHANGED notQueue

\* self.next.take().map(|node| { self.next = node.next.as_mut();
\* &mut node.elem }), and the body of the loop writes *elem = v
QueueIterMutNext(v) ==
    /\ qmode = "iter_mut"
    /\ qop' = "next"
    /\ IF qcursor = NULL
       THEN /\ qRet' = None
            /\ UNCHANGED <<qList, qabs, qcursor, qyielded, qub>>
       ELSE /\ qcursor' = qList.nodes[qcursor].next
            /\ qRet' = qList.nodes[qcursor].elem
            /\ qyielded' = Append(qyielded, qList.nodes[qcursor].elem)
            /\ qList' = QueueWrite(qList, qcursor, v)
            /\ qabs' = [k \in 1..Len(qabs) |-> IF k = Len(qyielded) + 1 THEN v ELSE qabs[k]]
            /\ qub' = (qub \/ Dangling(qList, qList.nodes[qcursor].next))
    /\ UNCHANGED <<qemptied, qmode, qsnap>>
    /\ UNCHANGED notQueue

\* the Iter or IterMut goes out of scope and its borrow of the list ends
QueueIterEnd ==
    /\ qmode \in {"iter", "iter_mut"}
    /\ qmode' = "list"
    /\ qcursor' = NULL
    /\ qyielded' = <<>>
    /\ qsnap' = <<>>
    /\ qop' = "iter_end"
    /\ UNCHANGED <<qList, qRet, qabs, qemptied, qub>>
    /\ UNCHANGED notQueue

NextQueue ==
    \/ \E e \in Elems : QueuePush(e)
    \/ QueuePop
    \/ QueuePeek
    \/ \E v \in Elems : QueuePeekMut(v)
    \/ QueueIter
    \/ QueueIterNext
    \/ QueueIterMut
    \/ \E v \in Elems : QueueIterMutNext(v)
    \/ QueueIterEnd

\* ======================================================================
\* persistent_stack.rs: immutable lists of Arc<Node<T>> nodes that share
\* their suffixes.  arcs maps an address to a node and the strong count of
\* its Arc; lists holds the head of every List value the program has, in
\* the order of the addresses (which variable holds which list makes no
\* difference to a list).
ArcNodes == 1..MaxShared

NoArc == [elem |-> None, next |-> NULL, strong |-> 0]
ArcFree(h) == {n \in ArcNodes : h[n].strong = 0}
\* the address Arc::new returns: a free one, and which one makes no
\* difference to a list, so the lowest
NewArc(h) == CHOOSE n \in ArcFree(h) : \A m \in ArcFree(h) : n <= m
NoIter == [list |-> 0, next |-> NULL]

\* Option<Arc<..>>::clone: one more strong reference, none for None
ArcClone(h, p) == IF p = NULL THEN h ELSE [h EXCEPT ![p].strong = @ + 1]

\* mutant: the new node is made with next: None
Prepend_NoNext(h, p, n, e) ==
    [nodes |-> [h EXCEPT ![n] = [elem |-> e, next |-> NULL, strong |-> 1]],
     head |-> n]

\* List { head: Some(Arc::new(Node { elem, next: self.head.clone() })) },
\* the new node at address n
Prepend(h, p, n, e) ==
    [nodes |-> [ArcClone(h, p) EXCEPT ![n] = [elem |-> e, next |-> p, strong |-> 1]],
     head |-> n]

\* List { head: self.head.as_ref().and_then(|head| head.next.clone()) }
TailOf(h, p) ==
    IF p = NULL
    THEN [nodes |-> h, head |-> NULL]
    ELSE [nodes |-> ArcClone(h, h[p].next), head |-> h[p].next]

\* self.head.as_ref().map(|head| &head.elem)
HeadOf(h, p) == IF p = NULL THEN None ELSE h[p].elem

\* the drop glue of Option<Arc<Node<T>>>: one strong reference less, and
\* with the last one the node goes and its next link is dropped in turn
RECURSIVE ArcDrop(_, _)
ArcDrop(h, p) ==
    IF p = NULL \/ h[p].strong = 0 THEN h
    ELSE IF h[p].strong > 1 THEN [h EXCEPT ![p].strong = @ - 1]
    ELSE ArcDrop([h EXCEPT ![p] = NoArc], h[p].next)

\* mutant: Arc::try_unwrap has failed although this was the last reference
\* (two threads saw each other's), and the Arc is dropped by its glue
ArcIntoInner_Glue(h, p) ==
    [got |-> FALSE, next |-> NULL, nodes |-> ArcDrop(h, p)]

\* Arc::into_inner(node): the count is decremented atomically, and the
\* caller that took the last reference gets the Node moved out of the Arc,
\* its next link included
ArcIntoInner(h, p) ==
    IF h[p].strong = 1
    THEN [got |-> TRUE, next |-> h[p].next, nodes |-> [h EXCEPT ![p] = NoArc]]
    ELSE [got |-> FALSE, next |-> NULL, nodes |-> [h EXCEPT ![p].strong = @ - 1]]

\* the nodes met from p along next
RECURSIVE ArcReach(_, _)
ArcReach(h, p) == IF p = NULL THEN {} ELSE {p} \cup ArcReach(h, h[p].next)

\* the elements met from p along next
RECURSIVE ArcWalk(_, _)
ArcWalk(h, p) == IF p = NULL THEN <<>> ELSE <<h[p].elem>> \o ArcWalk(h, h[p].next)

\* the values successive head() / tail() steps return, up to the first None
RECURSIVE HeadTailOrder(_, _)
HeadTailOrder(h, p) ==
    IF HeadOf(h, p) = None
    THEN <<>>
    ELSE <<HeadOf(h, p)>> \o HeadTailOrder(TailOf(h, p).nodes, TailOf(h, p).head)

\* one more List value, with head p
AddList(s, p) ==
    LET k == Cardinality({i \in 1..Len(s) : s[i] <= p})
    IN SubSeq(s, 1, k) \o <<p>> \o SubSeq(s, k + 1, Len(s))
\* a call outside the loop over an Iter, with no drop running
CanCall == pDrops = <<>> /\ pIter = NoIter
\* a call that returns a List needs a variable to hold it
CanHold == Len(lists) < MaxLists

notShared == <<dequeVars, stackVars, queueVars>>

InitPersistent ==
    /\ arcs = [n \in ArcNodes |-> NoArc]
    /\ lists = <<NULL>>
    /\ pRet = None
    /\ pIter = NoIter
    /\ pYielded = <<>>
    /\ pDrops = <<>>

\* List::new()
ListNew ==
    /\ CanCall
    /\ CanHold
    /\ lists' = AddList(lists, NULL)
    /\ pRet' = None
    /\ UNCHANGED <<arcs, pIter, pYielded, pDrops>>
    /\ UNCHANGED notShared

\* lists[i].prepend(e)
ListPrepend(i, e) ==
    /\ CanCall
    /\ CanHold
    /\ ArcFree(arcs) /= {}
    /\ arcs' = Prepend(arcs, lists[i], NewArc(arcs), e).nodes
    /\ lists' = AddList(lists, Prepend(arcs, lists[i], NewArc(arcs), e).head)
    /\ pRet' = None
    /\ UNCHANGED <<pIter, pYielded, pDrops>>
    /\ UNCHANGED notShared

\* lists[i].tail()
ListTail(i) ==
    /\ CanCall
    /\ CanHold
    /\ arcs' = TailOf(arcs, lists[i]).nodes
    /\ lists' = AddList(lists, TailOf(arcs, lists[i]).head)
    /\ pRet' = None
    /\ UNCHANGED <<pIter, pYielded, pDrops>>
    /\ UNCHANGED notShared

\* lists[i].head()
ListHead(i) ==
    /\ CanCall
    /\ pRet' = HeadOf(arcs, lists[i])
    /\ UNCHANGED <<arcs, lists, pIter, pYielded, pDrops>>
    /\ UNCHANGED notShared

\* Iter { next: self.head.as_deref() }
ListIter(i) ==
    /\ CanCall
    /\ pIter' = [list |-> i, next |-> lists[i]]
    /\ pYielded' = <<>>
    /\ pRet' = None
    /\ UNCHANGED <<arcs, lists, pDrops>>
    /\ UNCHANGED notShared

\* mutant: the first call of next yields nothing and moves on
ListIterNext_Skip ==
    /\ pIter /= NoIter
    /\ IF pIter.next = NULL
       THEN /\ pRet' = None
            /\ UNCHANGED <<pIter, pYielded>>
       ELSE /\ pIter' = [pIter EXCEPT !.next = arcs[pIter.next].next]
            /\ pRet' = arcs[pIter.next].elem
            /\ pYielded' = IF pYielded = <<>> /\ arcs[pIter.next].next /= NULL
                           THEN pYielded ELSE Append(pYielded, arcs[pIter.next].elem)
    /\ UNCHANGED <<arcs, lists, pDrops>>
    /\ UNCHANGED notShared

\* self.next.map(|node| { self.next = node.next.as_deref(); &node.elem })
ListIterNext ==
    /\ pIter /= NoIter
    /\ IF pIter.next = NULL
       THEN /\ pRet' = None
            /\ UNCHANGED <<pIter, pYielded>>
       ELSE /\ pIter' = [pIter EXCEPT !.next = arcs[pIter.next].next]
            /\ pRet' = arcs[pIter.next].elem
            /\ pYielded' = Append(pYielded, arcs[pIter.next].elem)
    /\ UNCHANGED <<arcs, lists, pDrops>>
    /\ UNCHANGED notShared

\* the Iter goes out of scope and its borrow of the list ends
ListIterEnd ==
    /\ pIter /= NoIter
    /\ pIter' = NoIter
    /\ pYielded' = <<>>
    /\ pRet' = None
    /\ UNCHANGED <<arcs, lists, pDrops>>
    /\ UNCHANGED notShared

\* lists[i] goes out of scope on a thread of its own:
\* let mut head = self.head.take();
ListDrop(i) ==
    /\ pIter = NoIter
    /\ pDrops' = AddList(pDrops, lists[i])
    /\ lists' = RemoveAt(lists, i)
    /\ pRet' = None
    /\ UNCHANGED <<arcs, pIter, pYielded>>
    /\ UNCHANGED notShared

\* mutant: no break, the loop goes on behind a node it did not get
ListDropLoop_NoBreak(k) ==
    /\ IF pDrops[k] = NULL
       THEN /\ pDrops' = RemoveAt(pDrops, k)
            /\ UNCHANGED arcs
       ELSE /\ arcs' = ArcIntoInner(arcs, pDrops[k]).nodes
            /\ pDrops' = AddList(RemoveAt(pDrops, k), arcs[pDrops[k]].next)
    /\ UNCHANGED <<lists, pRet, pIter, pYielded>>
    /\ UNCHANGED notShared

\* while let Some(node) = head.take() {
\*     if let Some(mut node) = Arc::into_inner(node) { head = node.next.take(); }
\*     else { break; } }
\* one turn of the loop of the k-th drop in progress
ListDropLoop(k) ==
    /\ IF pDrops[k] = NULL
       THEN /\ pDrops' = RemoveAt(pDrops, k)
            /\ UNCHANGED arcs
       ELSE /\ arcs' = ArcIntoInner(arcs, pDrops[k]).nodes
            /\ pDrops' = IF ArcIntoInner(arcs, pDrops[k]).got
                         THEN AddList(RemoveAt(pDrops, k), ArcIntoInner(arcs, pDrops[k]).next)
                         ELSE RemoveAt(pDrops, k)
    /\ UNCHANGED <<lists, pRet, pIter, pYielded>>
    /\ UNCHANGED notShared

NextPersistent ==
    \/ ListNew
    \/ \E i \in 1..Len(lists), e \in Elems : ListPrepend(i, e)
    \/ \E i \in 1..Len(lists) : ListTail(i)
    \/ \E i \in 1..Len(lists) : ListHead(i)
    \/ \E i \in 1..Len(lists) : ListIter(i)
    \/ ListIterNext
    \/ ListIterEnd
    \/ \E i \in 1..Len(lists) : ListDrop(i)
    \/ \E k \in 1..Len(pDrops) : ListDropLoop(k)

\* ======================================================================
\* the specifications: every list starts as its new() makes it, and each
\* specification runs the operations of one module
StacksFresh == InitStacks
PersistentFresh == InitPersistent

Init ==
    /\ InitDeque
    /\ InitStacks
    /\ InitQueue
    /\ InitPersistent

Spec == Init /\ [][Next]_vars
SpecStacks == Init /\ [][NextStacks]_vars
SpecQueue == Init /\ [][NextQueue]_vars
SpecPersistent == Init /\ [][NextPersistent]_vars

\* the lists that have iterators, one of them per run
NextIter ==
    \/ PersistentFresh /\ NextStacks
    \/ StacksFresh /\ NextPersistent
\* the deque, or the two stacks, for what holds of the teardown of each
DequeFresh == InitDeque
NextDrop ==
    \/ StacksFresh /\ Next
    \/ DequeFresh /\ NextStacks
SpecDrop == Init /\ [][NextDrop]_vars

SpecIter == Init /\ [][NextIter]_vars

\* ------------------------------------------- properties of the other lists
\* C17: both stacks are LIFO: pop returns the element pushed last among
\* those not yet popped, None exactly when there is none, and the
\* bad_stack list returns what the ok_stack list returns; between the
\* calls the pops still to come are the pushed elements, the newest first.
C17_StacksLifo ==
    /\ [][StackPop => /\ okRet' = (IF sabs = <<>> THEN None ELSE Head(sabs))
                      /\ badRet' = okRet']_vars
    /\ [](smode = "list" => /\ PopOrder(okList) = sabs
                            /\ BadPopOrder(badList) = sabs)

C17_Witness ==
    /\ smode = "list"
    /\ sop = "pop"
    /\ okRet /= None
    /\ badRet = okRet
    /\ Len(sabs) = 2
    /\ Head(sabs) /= okRet

\* C18: the queue is FIFO: pop returns the oldest element pushed and not
\* yet popped, None exactly when there is none, also after the queue was
\* emptied and filled again; the walk from head is the pushed elements,
\* the oldest first, and no freed node is dereferenced.
C18_QueueFifo ==
    /\ [][QueuePop => qRet' = (IF qabs = <<>> THEN None ELSE Head(qabs))]_vars
    /\ [](QueueContents(qList) = qabs /\ ~qub)

C18_Witness ==
    /\ qemptied
    /\ qop = "pop"
    /\ qRet /= None
    /\ Len(qabs) = 2
    /\ qabs[1] /= qabs[2]
    /\ qRet /= qabs[1]

\* the lists of before the step are lists after it, with the same elements
ListsKept ==
    \A i \in 1..Len(lists) :
        /\ \E j \in 1..Len(lists') : lists'[j] = lists[i]
        /\ ArcWalk(arcs', lists[i]) = ArcWalk(arcs, lists[i])

\* C19: prepend and tail return new lists and leave the receiver's
\* elements as they are; prepend(x).head() is x and prepend(x).tail() has
\* the receiver's elements; tail() of a non-empty list drops its first
\* element; tail() of an empty list is empty and its head() is None.
C19_Persistent ==
    /\ [](\A i \in 1..Len(lists), e \in Elems :
            LET p == lists[i]
                t == TailOf(arcs, p)
            IN /\ ArcWalk(t.nodes, p) = ArcWalk(arcs, p)
               /\ p /= NULL => ArcWalk(t.nodes, t.head) = Tail(ArcWalk(arcs, p))
               /\ p = NULL => (t.head = NULL /\ HeadOf(arcs, p) = None)
               /\ ArcFree(arcs) /= {} =>
                    LET r == Prepend(arcs, p, NewArc(arcs), e)
                        rt == TailOf(r.nodes, r.head)
                    IN /\ ArcWalk(r.nodes, p) = ArcWalk(arcs, p)
                       /\ HeadOf(r.nodes, r.head) = e
                       /\ ArcWalk(r.nodes, r.head) = <<e>> \o ArcWalk(arcs, p)
                       /\ ArcWalk(rt.nodes, rt.head) = ArcWalk(arcs, p))
    /\ [][(\E i \in 1..Len(lists), e \in Elems : ListPrepend(i, e))
            => (ListsKept /\ Len(lists') = Len(lists) + 1)]_vars
    /\ [][(\E i \in 1..Len(lists) : ListTail(i))
            => (ListsKept /\ Len(lists') = Len(lists) + 1)]_vars

\* a list of one element, the list made by prepend on it, and the tail of
\* that one, which shares the node of the first
C19_Witness ==
    /\ Len(lists) = 3
    /\ lists[1] = lists[2]
    /\ lists[1] /= NULL
    /\ lists[3] /= NULL
    /\ arcs[lists[3]].next = lists[1]
    /\ arcs[lists[1]].strong = 3
    /\ arcs[lists[3]].elem /= arcs[lists[1]].elem

\* what the next call of an iterator returns when it has yielded done of order
NextOf(order, done) == IF Len(done) < Len(order) THEN order[Len(done) + 1] ELSE None

\* C20: Iter and IterMut of ok_stack and Iter of persistent_stack yield
\* the elements once each, in the order of successive pops (of successive
\* head() / tail() steps), then None, and leave the list as it is;
\* IntoIter of ok_stack yields what repeated pops return.
C20_Iterators ==
    /\ [](smode \in {"iter", "iter_mut"} =>
            /\ PopOrder(okList) = ssnap
            /\ yielded \o PopOrder([okList EXCEPT !.head = cursor]) = ssnap)
    /\ [](smode = "into_iter" => yielded \o PopOrder(okList) = ssnap)
    /\ [][(smode \in {"iter", "iter_mut", "into_iter"} /\ smode' = smode) =>
            /\ okRet' = NextOf(ssnap, yielded)
            /\ yielded' = IF okRet' = None THEN yielded ELSE Append(yielded, okRet')
            /\ smode /= "into_iter" => okList' = okList]_vars
    /\ [](pIter /= NoIter =>
            pYielded \o ArcWalk(arcs, pIter.next) = HeadTailOrder(arcs, lists[pIter.list]))
    /\ [][(pIter /= NoIter /\ pIter' /= NoIter) =>
            /\ pRet' = NextOf(HeadTailOrder(arcs, lists[pIter.list]), pYielded)
            /\ pYielded' = IF pRet' = None THEN pYielded ELSE Append(pYielded, pRet')
            /\ arcs' = arcs
            /\ lists' = lists]_vars

C20_Witness ==
    /\ smode = "iter_mut"
    /\ sop = "next"
    /\ cursor = NULL
    /\ okRet = None
    /\ Len(yielded) = 3
    /\ yielded[1] /= yielded[2]
    /\ yielded = ssnap

\* C21: peek returns what pop would return next and removes nothing; a
\* value written through peek_mut or through the IterMut is the value
\* peek, the Iter and pop observe afterwards; both iterators visit every
\* element once from the front to the back and then return None again and
\* again; a push made after such writes appends behind the elements.
C21_QueueViews ==
    /\ [](QueueContents(qList) = qabs /\ ~qub)
    /\ [][QueuePeek => /\ qRet' = QueuePopOff(qList).ret
                       /\ qRet' = (IF qabs = <<>> THEN None ELSE Head(qabs))
                       /\ qList' = qList]_vars
    /\ [][(qop' = "peek_mut" /\ qmode = "list" /\ qabs /= <<>>) =>
            /\ QueuePeekAt(qList').ret = Head(qabs')
            /\ Tail(QueueContents(qList')) = Tail(QueueContents(qList))
            /\ qList'.head = qList.head
            /\ qList'.tail = qList.tail]_vars
    /\ [](qmode = "iter" => (qsnap = qabs /\ qyielded \o QueueWalk(qList, qcursor, MaxQueue + 1) = qabs))
    /\ [](qmode = "iter_mut" =>
            /\ qyielded \o QueueWalk(qList, qcursor, MaxQueue + 1) = qsnap
            /\ Len(qabs) = Len(qsnap)
            /\ SubSeq(qabs, Len(qyielded) + 1, Len(qabs)) = QueueWalk(qList, qcursor, MaxQueue + 1))
    /\ [][(qmode \in {"iter", "iter_mut"} /\ qmode' = qmode) =>
            /\ qRet' = NextOf(qsnap, qyielded)
            /\ qyielded' = IF qRet' = None THEN qyielded ELSE Append(qyielded, qRet')
            /\ qRet' = None => qcursor' = NULL]_vars
    /\ [][(qop' = "push" /\ qmode = "list") =>
            \E e \in Elems : QueueContents(qList') = Append(QueueContents(qList), e)]_vars

\* an IterMut has visited the two elements of the queue, and what it wrote
\* is not what it found
C21_Witness ==
    /\ qmode = "iter_mut"
    /\ qcursor = NULL
    /\ qRet = None
    /\ Len(qyielded) = 2
    /\ qyielded = qsnap
    /\ qabs[1] /= qsnap[1]
    /\ qabs[2] /= qsnap[2]
    /\ qabs[1] /= qabs[2]

\* C27: head is null exactly when tail is null; a non-null tail points to a
\* live node, the last one reachable from head, whose next is null; the pop
\* of the last element resets tail, so no push writes through a dangling
\* tail, and the node pushed on the emptied queue is both head and tail.
C27_QueuePointers ==
    /\ []((qList.head = NULL) <=> (qList.tail = NULL))
    /\ [](qList.tail /= NULL =>
            /\ qList.nodes[qList.tail].live
            /\ qList.nodes[qList.tail].next = NULL
            /\ QueueLast(qList, qList.head, MaxQueue + 1) = qList.tail)
    /\ [][(QueuePop /\ Len(QueueContents(qList)) = 1) =>
            (qList'.tail = NULL /\ qList'.head = NULL)]_vars
    /\ [][(qop' = "push" /\ qmode = "list") =>
            /\ ~Dangling(qList, qList.tail)
            /\ ~qub'
            /\ qList.head = NULL =>
                 /\ qList'.head = qList'.tail
                 /\ qList'.head /= NULL
                 /\ qList'.nodes[qList'.head].live]_vars

\* a push on a queue that a pop had emptied: one node, head and tail
C27_Witness ==
    /\ qemptied
    /\ qop = "push"
    /\ qList.head /= NULL
    /\ qList.head = qList.tail
    /\ Len(qabs) = 1

\* C22: shared views coexist. While every view taken so far is a shared
\* one, peek_front and peek_back never conflict: each returns a further
\* view of the end element, also when the deque has one element and both
\* ends borrow the same node; the node counts one shared borrow per view.
AllShared == \A i \in 1..Len(views) : ~views[i].mutable
C22_SharedViewsCoexist ==
    /\ [][((PeekFront \/ PeekBack) /\ AllShared) =>
            /\ pc' = "idle"
            /\ ret' = expect'
            /\ abs /= <<>> => Len(views') = Len(views) + 1]_vars
    /\ []((AllShared /\ pc = "idle") =>
            \A n \in Nodes : heap[n].borrow = Cardinality(ViewsOf(n)))

\* a front view and a back view of a one-element deque, both held
C22_Witness ==
    /\ pc = "idle"
    /\ Len(views) = 2
    /\ \A i \in 1..2 : ~views[i].mutable /\ ~views[i].leaked
    /\ views[1].front /\ ~views[2].front
    /\ views[1].node = views[2].node
    /\ head = tail
    /\ heap[head].borrow = 2

\* C23: between operations every node in the list has exactly two strong
\* references; inside a push or a pop no node has more than three.
InList == {Forward[i] : i \in 1..Len(Forward)}
C23_StrongCounts ==
    /\ pc = "idle" => \A n \in InList : heap[n].strong = 2
    /\ \A n \in Nodes : heap[n].strong <= 3

\* inside push_back on a non-empty deque: the new tail is owned by the
\* local and by the link of the old tail, the nodes in the list by two
C23_Witness ==
    /\ pc = "push_back_set_prev"
    /\ heap[local.newtail].strong = 2
    /\ Len(Forward) = 3

\* C24: between operations no node occupies two positions: the forward
\* walk from head visits every live node exactly once and ends at tail,
\* head and tail name the same node only when the deque has one element,
\* and the live nodes are exactly the nodes reachable from head.
C24_NoSharedPosition ==
    pc = "idle" =>
        /\ Len(Forward) <= MaxNodes
        /\ Cardinality(InList) = Len(Forward)
        /\ InList = Live(heap)
        /\ IF Forward = <<>> THEN tail = NULL ELSE Forward[Len(Forward)] = tail
        /\ (head /= NULL /\ head = tail) <=> Len(Forward) = 1

\* two nodes left after a pop_front took the first of three
C24_Witness ==
    /\ pc = "idle"
    /\ op = "pop_front"
    /\ ret /= None
    /\ Len(Forward) = 2
    /\ head /= tail
    /\ Cardinality(Free(heap)) = MaxNodes - 2

\* C25: with no view of a peek outstanding, no step of push_front,
\* push_back, pop_front or pop_back raises an access conflict: the node a
\* step is about to borrow exclusively is unborrowed, also the neighbour a
\* pop borrows while it still holds the RefMut of the node it removes.
BorrowTarget ==
    CASE pc \in {"push_front_some", "pop_front_take_next"} -> local.oldhead
      [] pc \in {"push_front_set_next", "pop_front_some"} -> local.newhead
      [] pc \in {"push_back_some", "pop_back_take_prev"} -> local.oldtail
      [] pc \in {"push_back_set_prev", "pop_back_some"} -> local.newtail
      [] OTHER -> NULL
Boxed(l) == StackNodes \ StackFree(l)
C26_NoCascade ==
    /\ [](pc = "pop_front_unwrap" =>
            heap[local.oldhead].next = NULL /\ heap[local.oldhead].prev = NULL)
    /\ [](pc = "pop_back_unwrap" =>
            heap[local.oldtail].next = NULL /\ heap[local.oldtail].prev = NULL)
    /\ [][Cardinality(Live(heap) \ Live(heap')) <= 1]_vars
    /\ [][OkDropStep => Boxed(okList) \ Boxed(okList') = {okCur}]_vars
    /\ [][BadDropStep => Boxed(badList) \ Boxed(badList') = {badCur.node}]_vars
    /\ [][(smode = "dropping" /\ smode' = "dropping") =>
            /\ Cardinality(Boxed(okList) \ Boxed(okList')) <= 1
            /\ Cardinality(Boxed(badList) \ Boxed(badList')) <= 1]_vars

\* the teardown of two stacks of three has freed the first Box of each and
\* the two behind it are still there
C26_Witness ==
    /\ smode = "dropping"
    /\ Cardinality(Boxed(okList)) = 2
    /\ Cardinality(Boxed(badList)) = 2
    /\ okCur /= NULL
    /\ okList.nodes[okCur].next /= NULL
    /\ badCur.tag = "More"

\* the teardown of a deque of three is about to destroy its first node
C26_WitnessDeque ==
    /\ op = "drop"
    /\ pc = "pop_front_unwrap"
    /\ Len(Forward) = 2
    /\ heap[local.oldhead].strong = 1

\* the nodes some live list reaches, and the allocated nodes
Shared == UNION {ArcReach(arcs, lists[i]) : i \in 1..Len(lists)}
Allocated == ArcNodes \ ArcFree(arcs)
\* the handles on node n: list heads, heads of running drops, next links
Handles(n) ==
    Cardinality({i \in 1..Len(lists) : lists[i] = n})
        + Cardinality({k \in 1..Len(pDrops) : pDrops[k] = n})
        + Cardinality({m \in Allocated : arcs[m].next = n})
DropStep(k) == ListDropLoop(k) /\ pDrops[k] /= NULL

\* C28: the drop of a list frees exactly the nodes no other live list
\* reaches: its loop frees a node nothing else refers to and goes on to the
\* next, and stops at the first node still referenced, which stays as it
\* was with all the nodes behind it; every other list yields the same
\* elements before and after.
C28_DropFreesUnshared ==
    /\ [](\A n \in ArcNodes : arcs[n].strong = Handles(n))
    /\ [](pDrops = <<>> => Allocated = Shared)
    /\ [](Shared \subseteq Allocated)
    /\ [][\A k \in 1..Len(pDrops) : DropStep(k) =>
            /\ \A i \in 1..Len(lists) : ArcWalk(arcs', lists[i]) = ArcWalk(arcs, lists[i])
            /\ IF Handles(pDrops[k]) = 1
               THEN /\ Allocated' = Allocated \ {pDrops[k]}
                    /\ Len(pDrops') = Len(pDrops)
               ELSE /\ Allocated' = Allocated
                    /\ Len(pDrops') = Len(pDrops) - 1
                    /\ \A n \in ArcReach(arcs, pDrops[k]) :
                          arcs'[n].elem = arcs[n].elem /\ arcs'[n].next = arcs[n].next]_vars

\* the drop of a list is at its own first node, and the node behind it is
\* the head of a list that lives on
C28_Witness ==
    /\ Len(pDrops) = 1
    /\ pDrops[1] /= NULL
    /\ arcs[pDrops[1]].strong = 1
    /\ arcs[pDrops[1]].next /= NULL
    /\ arcs[arcs[pDrops[1]].next].strong = 2
    /\ \E i \in 1..Len(lists) : lists[i] = arcs[pDrops[1]].next

\* C29: when lists that share nodes are dropped by different threads at
\* the same time, of the drops that come to a shared node exactly one gets
\* it from Arc::into_inner, and goes on; the others get None and stop;
\* when all drops are done every node was freed once, by the drop that got
\* it, and never by the drop glue of a link.
C29_ConcurrentDrops ==
    /\ [](\A k \in 1..Len(pDrops) : pDrops[k] /= NULL => pDrops[k] \in Allocated)
    /\ [][\A k \in 1..Len(pDrops) : DropStep(k) =>
            /\ ArcIntoInner(arcs, pDrops[k]).got <=> arcs[pDrops[k]].strong = 1
            /\ ArcIntoInner(arcs, pDrops[k]).got <=> pDrops[k] \notin Allocated'
            /\ ArcIntoInner(arcs, pDrops[k]).got <=> Len(pDrops') = Len(pDrops)
            /\ Allocated \ Allocated' \subseteq {pDrops[k]}
            /\ \A n \in Allocated' : arcs'[n].strong >= 1]_vars
    /\ [][Cardinality(Allocated \ Allocated') <= 1]_vars
    /\ []((lists = <<>> /\ pDrops = <<>>) => Allocated = {})

\* two drops on two threads have both come to the node their lists share,
\* and nothing else refers to it
C29_Witness ==
    /\ Len(pDrops) = 2
    /\ pDrops[1] /= NULL
    /\ pDrops[1] = pDrops[2]
    /\ arcs[pDrops[1]].strong = 2
    /\ lists = <<>>
    /\ ArcFree(arcs) /= {}
====
